---- MODULE Spec2Model ----
(***************************************************************************)
(* A model of the Monkey interpreter (your-diary/monkey_lang_rust).        *)
(*                                                                         *)
(* The evaluator is a tree-walking interpreter: every eval_* function of   *)
(* src/src/evaluator.rs is an operator here, computed as the code computes *)
(* it.  An environment is a value (the code clones it wherever it is       *)
(* captured), so a record models it exactly.  Every operator threads the   *)
(* environment it may mutate (env: &mut Environment) and a history h of    *)
(* the evaluation steps taken so far; the history is the only addition to  *)
(* the code and is what the properties below are stated on.  Numbers are   *)
(* the code's: an Int is an i32 whose overflow panics, a Float an f64.     *)
(*                                                                         *)
(* The state machine is the REPL session of src/src/repl.rs: one action    *)
(* evaluates one parsed line against the persistent session environment.   *)
(***************************************************************************)
EXTENDS Integers, Sequences, FiniteSets, TLC

VARIABLES
    env,      \* repl.rs:39   the session environment
    line,     \* repl.rs:61   the RootNode of the last line read
    result,   \* repl.rs:65   the EvalResult of the last line
    hist,     \* the evaluation steps of the last line (history variable)
    nlines,   \* number of lines read so far
    status,   \* "running", "exited" once 'exit(n)' ended the process, or
              \* "aborted" once a panic did
    platform, \* operator.rs:119   the libm of the platform, which tells for
              \* each power next to half-way between two f64 which of them
              \* powf returns
    lexer,    \* repl.rs:14   the Lexer of get_tokens
    token,    \* repl.rs:17   what the last get_next_token() returned
    from,     \* the position of the lexer before that call (history variable)
    tokens,   \* repl.rs:59   the tokens given to Parser::new
    parser,   \* repl.rs:59   the Parser
    parsed    \* repl.rs:61   what parse() returned, or how far its loop is

\* lexer, tokens and parser are locals of get_tokens and of one iteration of
\* the loop of start(): LexSpec and ParseSpec follow them call by call.  An
\* action of Spec is a whole iteration, at whose end they are dropped, so in
\* Spec they are the empty lexer, token sequence and parser after every
\* step, and token and parsed tell how the lexing and the parsing of the
\* iteration ended.

vars == <<env, line, result, hist, nlines, status, platform, lexer, token,
          from, tokens, parser, parsed>>

(***************************************************************************)
(* Bounds                                                                  *)
(***************************************************************************)
MaxLines == 2      \* lines read in one session
MaxNest  == 2      \* nesting depth of the generated block programs
MaxIndex == 3      \* greatest index of the generated index expressions
MaxInput == 4      \* length of the generated input lines of the lexer
MaxTokens == 3     \* length of the generated token sequences of the parser

(***************************************************************************)
(* Option<T>: None is <<>>, Some(x) is <<x>>                               *)
(***************************************************************************)
None == <<>>
Some(x) == <<x>>

(***************************************************************************)
(* Natural numbers of any size, for the arithmetic of f64 and of i64.  A   *)
(* natural is the sequence of its digits in base 2^13, the least           *)
(* significant first, without a most significant zero (0 is <<>>).         *)
(***************************************************************************)
BASE == 2 ^ 13

\* the element of a set of one element: The({f(x) : x \in {e}}) is f(e),
\* e being computed before f is (this keeps the long divisions below, where
\* every digit needs the remainder left by the digit before it, in steps)
The(S) == CHOOSE x \in S : TRUE

Max(S) == CHOOSE x \in S : \A y \in S : y <= x

Min(S) == CHOOSE x \in S : \A y \in S : x <= y

DigitValue(c) == CHOOSE v \in 0..9 : <<"0", "1", "2", "3", "4", "5",
                                       "6", "7", "8", "9">>[v + 1] = c

bn_norm(a) ==
    IF \A i \in DOMAIN a : a[i] = 0 THEN <<>>
    ELSE SubSeq(a, 1, Max({i \in DOMAIN a : a[i] # 0}))

\* the natural n < 2^31
bn_from(n) == bn_norm(<<n % BASE, (n \div BASE) % BASE, n \div (BASE * BASE)>>)

\* the value of a natural below 2^31
bn_to_int(a) ==
    (IF Len(a) >= 1 THEN a[1] ELSE 0)
    + (IF Len(a) >= 2 THEN a[2] * BASE ELSE 0)
    + (IF Len(a) >= 3 THEN a[3] * BASE * BASE ELSE 0)

limb(a, i) == IF i <= Len(a) THEN a[i] ELSE 0

bn_is_odd(a) == a # <<>> /\ a[1] % 2 = 1

\* -1, 0 or 1 as a < b, a = b or a > b
bn_cmp(a, b) ==
    IF Len(a) # Len(b) THEN (IF Len(a) < Len(b) THEN -1 ELSE 1)
    ELSE IF a = b THEN 0
    ELSE IF a[Max({i \in DOMAIN a : a[i] # b[i]})]
            < b[Max({i \in DOMAIN a : a[i] # b[i]})]
    THEN -1 ELSE 1

\* a + b: the digit sums, then the carries; a carry enters the digit i
\* from the nearest digit below it whose sum is not BASE - 1
bn_carries(s) ==
    bn_norm([i \in DOMAIN s |->
                (s[i] + (IF \E j \in 1..i - 1 :
                               /\ s[j] >= BASE
                               /\ \A k \in j + 1..i - 1 : s[k] >= BASE - 1
                         THEN 1 ELSE 0)) % BASE])

bn_add(a, b) ==
    bn_carries([i \in 1..(IF Len(a) > Len(b) THEN Len(a) ELSE Len(b)) + 1 |->
                   limb(a, i) + limb(b, i)])

\* a - b, where a >= b: the digit differences, then the borrows
bn_borrows(d) ==
    bn_norm([i \in DOMAIN d |->
                (d[i] + BASE - (IF \E j \in 1..i - 1 :
                                      /\ d[j] < 0
                                      /\ \A k \in j + 1..i - 1 : d[k] <= 0
                                THEN 1 ELSE 0)) % BASE])

bn_sub(a, b) == bn_borrows([i \in 1..Len(a) |-> a[i] - limb(b, i)])

\* a * BASE^n
bn_shl_limbs(a, n) == IF a = <<>> THEN <<>> ELSE [i \in 1..n |-> 0] \o a

\* the natural with the digits c[i] < 2^31, which may exceed BASE
bn_carry(c) ==
    bn_add(bn_add([i \in DOMAIN c |-> c[i] % BASE],
                  bn_shl_limbs([i \in DOMAIN c |-> (c[i] \div BASE) % BASE],
                               1)),
           bn_shl_limbs([i \in DOMAIN c |-> c[i] \div (BASE * BASE)], 2))

\* a * k, where 0 <= k < 2^17
bn_mul_small(a, k) == bn_carry([i \in DOMAIN a |-> a[i] * k])

\* the sum of a[i] * b[k + 1 - i] for i in lo..hi
RECURSIVE bn_column(_, _, _, _, _)
bn_column(a, b, k, lo, hi) ==
    IF lo > hi THEN 0
    ELSE IF lo = hi THEN a[lo] * b[k + 1 - lo]
    ELSE bn_column(a, b, k, lo, (lo + hi) \div 2)
         + bn_column(a, b, k, (lo + hi) \div 2 + 1, hi)

\* a * b: by columns where one of them has no more than 31 digits (a column
\* is then below 2^31), by halves of b elsewhere
RECURSIVE bn_mul(_, _)
bn_mul(a, b) ==
    IF a = <<>> \/ b = <<>> THEN <<>>
    ELSE IF Len(a) <= 31 \/ Len(b) <= 31
    THEN bn_carry([k \in 1..Len(a) + Len(b) - 1 |->
                      bn_column(a, b, k,
                                IF k + 1 - Len(b) > 1 THEN k + 1 - Len(b)
                                ELSE 1,
                                IF k < Len(a) THEN k ELSE Len(a))])
    ELSE bn_add(bn_mul(a, SubSeq(b, 1, Len(b) \div 2)),
                bn_shl_limbs(bn_mul(a, SubSeq(b, Len(b) \div 2 + 1, Len(b))),
                             Len(b) \div 2))

\* a * 2^s and the floor of a / 2^s
bn_shl(a, s) == bn_shl_limbs(bn_mul_small(a, 2 ^ (s % 13)),
                             s \div 13)

\* [q |-> the floor of a / k, r |-> the remainder], where 1 <= k <= 2^17
\* (the division of the digits lo..hi, the more significant ones first,
\* rem being the remainder carried into the digit hi)
RECURSIVE bn_divmod_small_range(_, _, _, _, _)
bn_divmod_small_range(a, k, lo, hi, rem) ==
    IF lo = hi
    THEN [q |-> <<(rem * BASE + a[lo]) \div k>>,
          r |-> (rem * BASE + a[lo]) % k]
    ELSE The({The({[q |-> u.q \o t.q, r |-> u.r] :
                     u \in {bn_divmod_small_range(a, k, lo, (lo + hi) \div 2,
                                                  t.r)}}) :
                t \in {bn_divmod_small_range(a, k, (lo + hi) \div 2 + 1, hi,
                                             rem)}})

bn_quotient(t) == [q |-> bn_norm(t.q), r |-> t.r]

bn_divmod_small(a, k) ==
    IF a = <<>> THEN [q |-> <<>>, r |-> 0]
    ELSE bn_quotient(bn_divmod_small_range(a, k, 1, Len(a), 0))

bn_shr(a, s) ==
    IF s \div 13 >= Len(a) THEN <<>>
    ELSE bn_divmod_small(SubSeq(a, s \div 13 + 1, Len(a)),
                         2 ^ (s % 13)).q

\* a mod 2^s
bn_mod_pow2(a, s) ==
    IF s \div 13 >= Len(a) THEN a
    ELSE bn_norm(SubSeq(a, 1, s \div 13)
                 \o <<a[s \div 13 + 1] % (2 ^ (s % 13))>>)

\* the number of binary digits of a
bn_bitlen(a) ==
    IF a = <<>> THEN 0
    ELSE (Len(a) - 1) * 13
         + (CHOOSE n \in 1..13 :
                a[Len(a)] < 2 ^ n /\ a[Len(a)] >= 2 ^ (n - 1))

\* the greatest d in lo..hi with d * b <= a, where lo * b <= a
RECURSIVE bn_digit(_, _, _, _)
bn_digit(a, b, lo, hi) ==
    IF lo = hi THEN lo
    ELSE IF bn_cmp(bn_mul_small(b, (lo + hi + 1) \div 2), a) <= 0
    THEN bn_digit(a, b, (lo + hi + 1) \div 2, hi)
    ELSE bn_digit(a, b, lo, (lo + hi + 1) \div 2 - 1)

\* [q |-> the floor of a / b, r |-> the remainder], where b # 0: the long
\* division (of the digits lo..hi, the more significant ones first, rem
\* being the remainder carried into the digit hi)
bn_divmod_digit(cur, b, d) ==
    [q |-> <<d>>, r |-> bn_sub(cur, bn_mul_small(b, d))]

bn_divmod_one(cur, b) ==
    IF bn_cmp(cur, b) < 0 THEN [q |-> <<0>>, r |-> cur]
    ELSE bn_divmod_digit(cur, b, bn_digit(cur, b, 1, BASE - 1))

RECURSIVE bn_divmod_range(_, _, _, _, _)
bn_divmod_range(a, b, lo, hi, rem) ==
    IF lo = hi THEN bn_divmod_one(bn_norm(<<a[lo]>> \o rem), b)
    ELSE The({The({[q |-> u.q \o t.q, r |-> u.r] :
                     u \in {bn_divmod_range(a, b, lo, (lo + hi) \div 2,
                                            t.r)}}) :
                t \in {bn_divmod_range(a, b, (lo + hi) \div 2 + 1, hi,
                                       rem)}})

bn_divmod(a, b) ==
    IF a = <<>> THEN [q |-> <<>>, r |-> <<>>]
    ELSE bn_quotient(bn_divmod_range(a, b, 1, Len(a), <<>>))

\* 10^k
bn_square(h) == bn_mul(h, h)

RECURSIVE bn_pow10(_)
bn_pow10(k) ==
    IF k = 0 THEN <<1>>
    ELSE IF k % 2 = 1 THEN bn_mul_small(bn_pow10(k - 1), 10)
    ELSE bn_square(bn_pow10(k \div 2))

\* the natural written by the ASCII digits lo..hi of s
RECURSIVE bn_from_digits_range(_, _, _)
bn_from_digits_range(s, lo, hi) ==
    IF lo = hi THEN bn_from(DigitValue(s[lo]))
    ELSE bn_add(bn_mul(bn_from_digits_range(s, lo, (lo + hi) \div 2),
                       bn_pow10(hi - (lo + hi) \div 2)),
                bn_from_digits_range(s, (lo + hi) \div 2 + 1, hi))

bn_from_digits(s) ==
    IF s = <<>> THEN <<>> ELSE bn_from_digits_range(s, 1, Len(s))

(***************************************************************************)
(* f64: an IEEE 754 binary64 number is the record of its sign, its biased  *)
(* exponent (0..2047) and its 52-bit fraction, a natural.  There is one    *)
(* NaN: the program cannot tell one NaN from another.                      *)
(***************************************************************************)
F64(neg, exp, frac) == [neg |-> neg, exp |-> exp, frac |-> frac]
f64_zero(neg) == F64(neg, 0, <<>>)
f64_infinity(neg) == F64(neg, 2047, <<>>)
f64_nan == F64(FALSE, 2047, <<0, 0, 0, 4096>>)
f64_one == F64(FALSE, 1023, <<>>)

is_nan(a) == a.exp = 2047 /\ a.frac # <<>>
is_infinite(a) == a.exp = 2047 /\ a.frac = <<>>
is_zero(a) == a.exp = 0 /\ a.frac = <<>>

\* a finite a is (-1)^neg * mant(a) * 2^expo(a)
mant(a) == IF a.exp = 0 THEN a.frac
           ELSE [i \in 1..5 |-> IF i = 5 THEN 1 ELSE limb(a.frac, i)]
expo(a) == IF a.exp = 0 THEN -1074 ELSE a.exp - 1075

Min2(a, b) == IF a < b THEN a ELSE b

\* the f64 with the significand m < 2^53 and the exponent x >= -1074, m
\* being at least 2^52 unless x = -1074
f64_pack(neg, m, x) ==
    IF bn_bitlen(m) = 53
    THEN IF x + 1075 >= 2047 THEN f64_infinity(neg)
         ELSE F64(neg, x + 1075, bn_mod_pow2(m, 52))
    ELSE F64(neg, 0, m)

\* the significand m of 53 or (after a carry) 54 bits and the exponent x
f64_pack_rounded(neg, m, x) ==
    IF bn_bitlen(m) = 54 THEN f64_pack(neg, bn_shr(m, 1), x + 1)
    ELSE f64_pack(neg, m, x)

\* m * 2^x, where the digits dropped below m are less than (c < 0), equal
\* to (c = 0) or more than (c > 0) one half of the last place of m, and
\* sticky where something was lost below them: to the nearest, and to the
\* even one of two nearest
f64_round_half_even(neg, m, c, sticky, x) ==
    f64_pack_rounded(neg,
                     IF c > 0 \/ (c = 0 /\ (sticky \/ bn_is_odd(m)))
                     THEN bn_add(m, <<1>>) ELSE m,
                     x)

\* q * 2^x without the last 'drop' binary digits of q
f64_round_dropping(neg, q, r, x, drop) ==
    f64_round_half_even(neg, bn_shr(q, drop),
                        bn_cmp(bn_mod_pow2(q, drop), bn_shl(<<1>>, drop - 1)),
                        r # <<>>, x + drop)

\* the quotient q (with the remainder r of the division that gave it),
\* times 2^x, rounded to the nearest f64: 53 digits are kept, fewer where
\* the result is subnormal
f64_round_quotient(neg, q, r, x) ==
    f64_round_dropping(neg, q, r, x,
                       IF bn_bitlen(q) - 1 + x >= -1022 THEN bn_bitlen(q) - 53
                       ELSE -1074 - x)

\* the quotient and the remainder of n * 2^sh by d
bn_scaled_divmod(n, d, sh) ==
    IF d = <<1>>
    THEN (IF sh >= 0 THEN [q |-> bn_shl(n, sh), r |-> <<>>]
          ELSE [q |-> bn_shr(n, -sh), r |-> bn_mod_pow2(n, -sh)])
    ELSE IF sh >= 0 THEN bn_divmod(bn_shl(n, sh), d)
    ELSE bn_divmod(n, bn_shl(d, -sh))

f64_round_divided(neg, t, x) == f64_round_quotient(neg, t.q, t.r, x)

\* (-1)^neg * (n / d) * 2^e, rounded to the nearest f64: the quotient is
\* taken with 56 binary digits or more
f64_round_scaled(neg, n, d, e, sh) ==
    f64_round_divided(neg, bn_scaled_divmod(n, d, sh), e - sh)

round_to_f64(neg, n, d, e) ==
    IF n = <<>> THEN f64_zero(neg)
    ELSE f64_round_scaled(neg, n, d, e, 56 - (bn_bitlen(n) - bn_bitlen(d)))

f64_neg(a) == IF is_nan(a) THEN a ELSE [a EXCEPT !.neg = ~a.neg]

\* ((-1)^na * ma + (-1)^nb * mb) * 2^x
f64_add_aligned(na, ma, nb, mb, x) ==
    IF na = nb THEN round_to_f64(na, bn_add(ma, mb), <<1>>, x)
    ELSE IF bn_cmp(ma, mb) = 0 THEN f64_zero(FALSE)
    ELSE round_to_f64(IF bn_cmp(ma, mb) > 0 THEN na ELSE nb,
                      IF bn_cmp(ma, mb) > 0 THEN bn_sub(ma, mb)
                      ELSE bn_sub(mb, ma),
                      <<1>>, x)

f64_add_at(a, b, x) ==
    f64_add_aligned(a.neg, bn_shl(mant(a), expo(a) - x),
                    b.neg, bn_shl(mant(b), expo(b) - x), x)

\* a + b
f64_add(a, b) ==
    IF is_nan(a) \/ is_nan(b) THEN f64_nan
    ELSE IF is_infinite(a)
    THEN (IF is_infinite(b) /\ a.neg # b.neg THEN f64_nan ELSE a)
    ELSE IF is_infinite(b) THEN b
    ELSE f64_add_at(a, b, Min2(expo(a), expo(b)))

\* a - b
f64_sub(a, b) == f64_add(a, f64_neg(b))

\* a * b
f64_mul(a, b) ==
    IF is_nan(a) \/ is_nan(b) THEN f64_nan
    ELSE IF is_infinite(a) \/ is_infinite(b)
    THEN (IF is_zero(a) \/ is_zero(b) THEN f64_nan
          ELSE f64_infinity(a.neg # b.neg))
    ELSE round_to_f64(a.neg # b.neg, bn_mul(mant(a), mant(b)), <<1>>,
                      expo(a) + expo(b))

\* a / b
f64_div(a, b) ==
    IF is_nan(a) \/ is_nan(b) THEN f64_nan
    ELSE IF is_infinite(a)
    THEN (IF is_infinite(b) THEN f64_nan ELSE f64_infinity(a.neg # b.neg))
    ELSE IF is_infinite(b) THEN f64_zero(a.neg # b.neg)
    ELSE IF is_zero(b)
    THEN (IF is_zero(a) THEN f64_nan ELSE f64_infinity(a.neg # b.neg))
    ELSE round_to_f64(a.neg # b.neg, mant(a), mant(b), expo(a) - expo(b))

\* a % b: the remainder of the division truncated towards zero, with the
\* sign of a; it is a value of f64, nothing is rounded
f64_rem_at(a, b, x) ==
    round_to_f64(a.neg,
                 bn_divmod(bn_shl(mant(a), expo(a) - x),
                           bn_shl(mant(b), expo(b) - x)).r,
                 <<1>>, x)

f64_rem(a, b) ==
    IF is_nan(a) \/ is_nan(b) \/ is_infinite(a) \/ is_zero(b) THEN f64_nan
    ELSE IF is_infinite(b) \/ is_zero(a) THEN a
    ELSE IF expo(b) > expo(a) + 64 THEN a
    ELSE f64_rem_at(a, b, Min2(expo(a), expo(b)))

\* -1, 0 or 1 as a < b, a == b or a > b, where neither is NaN
f64_cmp(a, b) ==
    IF is_zero(a) /\ is_zero(b) THEN 0
    ELSE IF a.neg # b.neg THEN (IF a.neg THEN -1 ELSE 1)
    ELSE (IF a.neg THEN -1 ELSE 1)
         * (IF a.exp # b.exp THEN (IF a.exp < b.exp THEN -1 ELSE 1)
            ELSE bn_cmp(a.frac, b.frac))

f64_eq(a, b) == ~is_nan(a) /\ ~is_nan(b) /\ f64_cmp(a, b) = 0
f64_lt(a, b) == ~is_nan(a) /\ ~is_nan(b) /\ f64_cmp(a, b) < 0
f64_le(a, b) == ~is_nan(a) /\ ~is_nan(b) /\ f64_cmp(a, b) <= 0

\* i as f64, of an i32
f64_from_i32(i) ==
    IF i = -2147483647 - 1 THEN round_to_f64(TRUE, <<0, 0, 32>>, <<1>>, 0)
    ELSE round_to_f64(i < 0, bn_from(IF i < 0 THEN -i ELSE i), <<1>>, 0)

\* a as i64: towards zero, NaN to 0, to the nearest bound out of the range;
\* the value is the sign and the magnitude
f64_as_i64(a) ==
    IF is_nan(a) \/ a.exp < 1023 THEN [neg |-> FALSE, abs |-> <<>>]
    ELSE IF a.exp >= 1023 + 63
    THEN [neg |-> a.neg,
          abs |-> IF a.neg THEN bn_shl(<<1>>, 63)
                  ELSE bn_sub(bn_shl(<<1>>, 63), <<1>>)]
    ELSE [neg |-> a.neg,
          abs |-> IF a.exp >= 1075 THEN bn_shl(mant(a), a.exp - 1075)
                  ELSE bn_shr(mant(a), 1075 - a.exp)]

(***************************************************************************)
(* The shortest decimal digits that read back as the same f64 (flt2dec,    *)
(* format_shortest of the Dragon strategy): the digits d1 d2 ... dn and k, *)
(* the value being 0.d1d2...dn * 10^k.                                     *)
(***************************************************************************)
\* a + plus reaches b (the upper bound of the rounding interval is scale)
shortest_over(inclusive, a, b) ==
    IF inclusive THEN bn_cmp(a, b) >= 0 ELSE bn_cmp(a, b) > 0

RECURSIVE shortest_fix_up(_, _)
shortest_fix_up(st, inclusive) ==
    IF shortest_over(inclusive, bn_add(st.mant, st.plus), st.scale)
    THEN shortest_fix_up([st EXCEPT !.scale = bn_mul_small(st.scale, 10),
                                    !.k = st.k + 1], inclusive)
    ELSE st

RECURSIVE shortest_fix_down(_, _)
shortest_fix_down(st, inclusive) ==
    IF shortest_over(inclusive,
                     bn_mul_small(bn_add(st.mant, st.plus), 10), st.scale)
    THEN st
    ELSE shortest_fix_down([st EXCEPT !.mant = bn_mul_small(st.mant, 10),
                                      !.minus = bn_mul_small(st.minus, 10),
                                      !.plus = bn_mul_small(st.plus, 10),
                                      !.k = st.k - 1], inclusive)

\* the state after the digit t.q, t.r being what is left of the value;
\* down and up: the digits so far, and the digits so far with the last one
\* raised, are within the rounding interval
shortest_next(st, t, minus, plus, down, up) ==
    [mant |-> t.r, minus |-> minus, plus |-> plus, scale |-> st.scale,
     k |-> st.k, digits |-> Append(st.digits, bn_to_int(t.q)),
     done |-> down \/ up,
     round_up |-> up /\ (~down \/ bn_cmp(bn_mul_small(t.r, 2),
                                         st.scale) >= 0)]

shortest_step(st, inclusive, t, minus, plus) ==
    shortest_next(st, t, minus, plus,
                  IF inclusive THEN bn_cmp(t.r, minus) <= 0
                  ELSE bn_cmp(t.r, minus) < 0,
                  shortest_over(inclusive, bn_add(t.r, plus), st.scale))

\* one digit more: the state after it, done where the digits so far
\* determine the f64
shortest_digit(st, inclusive) ==
    shortest_step(st, inclusive,
                  bn_divmod(bn_mul_small(st.mant, 10), st.scale),
                  bn_mul_small(st.minus, 10), bn_mul_small(st.plus, 10))

RECURSIVE shortest_digits(_, _)
shortest_digits(st, inclusive) ==
    IF st.done THEN st
    ELSE shortest_digits(shortest_digit(st, inclusive), inclusive)

\* digits + 1 in the last place; the carry out of the first place is a
\* digit more
digits_carry(d, k, i) ==
    [digits |-> [j \in DOMAIN d |-> IF j < i THEN d[j]
                                    ELSE IF j = i THEN d[i] + 1 ELSE 0],
     k |-> k]

digits_round_up(d, k) ==
    IF \A i \in DOMAIN d : d[i] = 9
    THEN [digits |-> [i \in DOMAIN d |-> IF i = 1 THEN 1 ELSE 0], k |-> k + 1]
    ELSE digits_carry(d, k, CHOOSE i \in DOMAIN d :
                                d[i] # 9 /\ \A j \in i + 1..Len(d) : d[j] = 9)

digits_trim(d) ==
    SubSeq(d, 1, CHOOSE i \in DOMAIN d :
                     d[i] # 0 /\ \A j \in i + 1..Len(d) : d[j] = 0)

\* the state before the first digit of a = mant(a) * 2^(x + 1 or 2), a
\* being at an edge where it is the least of its binade, k the estimate
\* of its decimal exponent: the value and the two halves of the rounding
\* interval as multiples of 1 / scale
shortest_start(a, edge, x, k) ==
    [mant |-> bn_mul(bn_shl(mant(a), (IF edge THEN 2 ELSE 1)
                                     + (IF x > 0 THEN x ELSE 0)),
                     bn_pow10(IF k < 0 THEN -k ELSE 0)),
     minus |-> bn_mul(bn_shl(<<1>>, IF x > 0 THEN x ELSE 0),
                      bn_pow10(IF k < 0 THEN -k ELSE 0)),
     plus |-> bn_mul(bn_shl(IF edge THEN <<2>> ELSE <<1>>,
                            IF x > 0 THEN x ELSE 0),
                     bn_pow10(IF k < 0 THEN -k ELSE 0)),
     scale |-> bn_mul(bn_shl(<<1>>, IF x < 0 THEN -x ELSE 0),
                      bn_pow10(IF k > 0 THEN k ELSE 0)),
     k |-> k, digits |-> <<>>, done |-> FALSE, round_up |-> FALSE]

\* the estimate of the decimal exponent: log10(2) is about 30103 / 100000
shortest_estimate(a, edge, x) ==
    ((bn_bitlen(bn_add(bn_shl(mant(a), IF edge THEN 2 ELSE 1),
                       IF edge THEN <<2>> ELSE <<1>>)) + x) * 30103)
        \div 100000

shortest_rounded(g) ==
    IF g.round_up THEN digits_round_up(g.digits, g.k)
    ELSE [digits |-> g.digits, k |-> g.k]

shortest_trimmed(r) == [digits |-> digits_trim(r.digits), k |-> r.k]

shortest_from(st0, inclusive) ==
    shortest_trimmed(
        shortest_rounded(
            shortest_digits(
                shortest_fix_down(shortest_fix_up(st0, inclusive), inclusive),
                inclusive)))

shortest_scaled(a, edge, x) ==
    shortest_from(shortest_start(a, edge, x, shortest_estimate(a, edge, x)),
                  ~bn_is_odd(mant(a)))

shortest_at(a, edge) ==
    shortest_scaled(a, edge, expo(a) - (IF edge THEN 2 ELSE 1))

\* of a finite a that is not zero
format_shortest(a) == shortest_at(a, a.exp # 0 /\ a.frac = <<>>)

RECURSIVE DigitsToString(_)
DigitsToString(d) ==
    IF d = <<>> THEN "" ELSE ToString(d[1]) \o DigitsToString(Tail(d))

RECURSIVE Zeros(_)
Zeros(n) == IF n <= 0 THEN "" ELSE "0" \o Zeros(n - 1)

\* the digits s.digits with the decimal exponent s.k, as a decimal where
\* 1e-4 <= |f| < 1e16 and with an exponent elsewhere
DebugDigits(s) ==
    IF s.k < -3 \/ s.k > 16
    THEN ToString(s.digits[1])
         \o (IF Len(s.digits) > 1
             THEN "." \o DigitsToString(Tail(s.digits)) ELSE "")
         \o "e" \o ToString(s.k - 1)
    ELSE IF s.k <= 0
    THEN "0." \o Zeros(-s.k) \o DigitsToString(s.digits)
    ELSE IF s.k >= Len(s.digits)
    THEN DigitsToString(s.digits) \o Zeros(s.k - Len(s.digits)) \o ".0"
    ELSE DigitsToString(SubSeq(s.digits, 1, s.k)) \o "."
         \o DigitsToString(SubSeq(s.digits, s.k + 1, Len(s.digits)))

\* format!("{:?}", f) of an f64: the shortest digits that read back as f
DebugF64(a) ==
    IF is_nan(a) THEN "NaN"
    ELSE IF is_infinite(a) THEN (IF a.neg THEN "-inf" ELSE "inf")
    ELSE IF is_zero(a) THEN (IF a.neg THEN "-0.0" ELSE "0.0")
    ELSE (IF a.neg THEN "-" ELSE "") \o DebugDigits(format_shortest(a))

(***************************************************************************)
(* f64::powf is the pow of the libm of the platform.  Its result is next   *)
(* to the power, but it is not always the nearest f64 (the error of the    *)
(* pow of glibc is below 0.54 units in the last place): a power within     *)
(* 1/16 of a unit of half-way between two f64 gives either of them, and    *)
(* any other power the nearest f64.  up tells which of the two is          *)
(* returned: the one above in magnitude, or the one below.  A libm         *)
(* decides that for each pair of arguments by itself: the same libm gives  *)
(* the f64 above for one power and the f64 below for another.              *)
(*                                                                         *)
(* The power is computed as 2^(b * log2(a)) in fixed point with 208        *)
(* fractional bits; a result that the fixed point puts within 2^-58 of a   *)
(* number of 54 bits is that number (a power that is a value of f64, or    *)
(* half-way between two, is computed as it is).                            *)
(***************************************************************************)
\* 1.0 in fixed point
ONE == bn_shl(<<1>>, 208)

fx_mul(a, b) == bn_shr(bn_mul(a, b), 208)
fx_div(a, b) == bn_divmod(bn_shl(a, 208), b).q

atanh_term(st, t2) ==
    [term |-> fx_mul(st.term, t2),
     total |-> bn_add(st.total, bn_divmod_small(st.term, st.i).q),
     i |-> st.i + 2]

RECURSIVE atanh_terms(_, _)
atanh_terms(st, t2) ==
    IF st.term = <<>> THEN st.total ELSE atanh_terms(atanh_term(st, t2), t2)

\* atanh(t) = t + t^3/3 + t^5/5 + ..., where 0 <= t <= 1/3
atanh_series(t) ==
    atanh_terms([term |-> t, total |-> <<>>, i |-> 1], fx_mul(t, t))

\* ln(2) in fixed point, 2 atanh(1/3)
LN2 ==
    <<2512, 4460, 1581, 3301, 5170, 121, 6845, 7774, 6147, 7580, 4728, 4951,
      7415, 7144, 2143, 5678>>

exp_term(st, a) ==
    [term |-> bn_divmod_small(fx_mul(st.term, a), st.j).q,
     total |-> bn_add(st.total, st.term),
     j |-> st.j + 1]

RECURSIVE exp_terms(_, _)
exp_terms(st, a) ==
    IF st.term = <<>> THEN st.total ELSE exp_terms(exp_term(st, a), a)

\* e^a = 1 + a + a^2/2! + ..., where 0 <= a < 1
exp_series(a) == exp_terms([term |-> ONE, total |-> <<>>, j |-> 1], a)

\* top without its last 60 binary digits (low) where they are below 4 or
\* above 2^60 - 4: the number of 54 digits that top is next to
fx_snap(top, low) ==
    IF bn_cmp(low, <<4>>) < 0 THEN bn_sub(top, low)
    ELSE IF bn_cmp(bn_sub(bn_shl(<<1>>, 60), low), <<4>>) < 0
    THEN bn_add(top, bn_sub(bn_shl(<<1>>, 60), low))
    ELSE top

\* n * 2^e without the last 'drop' binary digits of n, of which the first
\* four tell the sixteenth of a unit in the last place that n is in: the
\* f64 chosen by up in the two sixteenths next to half-way, the nearest
\* elsewhere
fx_round_dropping(n, e, drop, up) ==
    IF bn_to_int(bn_mod_pow2(bn_shr(n, drop - 4), 4)) \in {7, 8}
    THEN f64_pack_rounded(FALSE,
                          IF up THEN bn_add(bn_shr(n, drop), <<1>>)
                          ELSE bn_shr(n, drop),
                          e + drop)
    ELSE round_to_f64(FALSE, n, <<1>>, e)

\* 53 digits are kept, fewer where the result is subnormal
fx_round_keeping(n, e, keep, up) ==
    IF keep < 1 THEN round_to_f64(FALSE, n, <<1>>, e)
    ELSE fx_round_dropping(n, e, bn_bitlen(n) - keep, up)

fx_round_snapped(n, e, up) ==
    fx_round_keeping(n, e,
                     IF bn_bitlen(n) - 1 + e >= -1022 THEN 53
                     ELSE bn_bitlen(n) + e + 1074,
                     up)

fx_round_top(top, x, up) ==
    fx_round_snapped(fx_snap(top, bn_mod_pow2(top, 60)), x, up)

fx_round_cut(n, e, cut, up) == fx_round_top(bn_shr(n, cut), e + cut, up)

\* n * 2^e as f64, n being a fixed-point result of 209 bits or more, of
\* which the first 114 are kept
round_near(n, e, up) == fx_round_cut(n, e, bn_bitlen(n) - 114, up)

\* |log2(f)| in fixed point, where f is in (sqrt(1/2), sqrt(2)] and below
\* tells f < 1: log2(f) = 2 atanh((f - 1) / (f + 1)) / ln(2)
fx_log2_fraction(f, below) ==
    fx_div(bn_mul_small(atanh_series(fx_div(IF below THEN bn_sub(ONE, f)
                                            ELSE bn_sub(f, ONE),
                                            bn_add(f, ONE))), 2), LN2)

\* e - q where below, e + q elsewhere, as [neg, abs]; q <= 1/2
fx_log2_sum(e, whole, below, q) ==
    IF ~below
    THEN IF e >= 0 THEN [neg |-> FALSE, abs |-> bn_add(whole, q)]
         ELSE [neg |-> TRUE, abs |-> bn_sub(whole, q)]
    ELSE IF e > 0 THEN [neg |-> FALSE, abs |-> bn_sub(whole, q)]
         ELSE [neg |-> TRUE, abs |-> bn_add(whole, q)]

fx_log2_reduced(f, e, below) ==
    fx_log2_sum(e, bn_shl(bn_from(IF e < 0 THEN -e ELSE e), 208), below,
                fx_log2_fraction(f, below))

fx_log2_halved(f, e) == fx_log2_reduced(f, e, bn_cmp(f, ONE) < 0)

\* f0 in [1, 2) is halved where it is above sqrt(2)
fx_log2_high(f0, e0, high) ==
    fx_log2_halved(IF high THEN bn_shr(f0, 1) ELSE f0,
                   e0 + (IF high THEN 1 ELSE 0))

fx_log2_scaled(f0, e0) ==
    fx_log2_high(f0, e0,
                 bn_cmp(bn_mul(f0, f0), bn_shl(<<1>>, 2 * 208 + 1)) > 0)

\* log2(m * 2^x) in fixed point, as [neg, abs], where m > 0: the
\* significand f in (sqrt(1/2), sqrt(2)] and the exponent e with
\* m * 2^x = f * 2^e, and log2(f)
fx_log2(m, x) ==
    fx_log2_scaled(bn_shl(m, 208 - (bn_bitlen(m) - 1)), x + bn_bitlen(m) - 1)

\* 2^(z.n + z.f), z.n an integer and z.f a fixed-point fraction
fx_exp2(z, up) ==
    IF z.n > 1030 THEN f64_infinity(FALSE)
    ELSE IF z.n < -1080 THEN f64_zero(FALSE)
    ELSE round_near(exp_series(fx_mul(z.f, LN2)), z.n - 208, up)

\* 2^z as f64, z = (-1)^neg * (n + f), n a small natural and f a
\* fixed-point fraction
f64_exp2(neg, n, f, up) ==
    fx_exp2(IF ~neg THEN [n |-> n, f |-> f]
            ELSE IF f = <<>> THEN [n |-> -n, f |-> f]
            ELSE [n |-> -n - 1, f |-> bn_sub(ONE, f)],
            up)

\* 2^((-1)^neg * z), z in fixed point
powf_exp2(neg, z, up) ==
    f64_exp2(neg, bn_to_int(bn_shr(z, 208)), bn_mod_pow2(z, 208), up)

\* 2^((-1)^neg * a * 2^xy), a in fixed point
powf_scaled(neg, a, xy, up) ==
    IF bn_bitlen(a) + xy > 208 + 12
    THEN (IF neg THEN f64_zero(FALSE) ELSE f64_infinity(FALSE))
    ELSE powf_exp2(neg, IF xy >= 0 THEN bn_shl(a, xy) ELSE bn_shr(a, -xy),
                   up)

\* 2^(l * (-1)^ny * my * 2^xy), l = [neg, abs] in fixed point
powf_of_log2(l, ny, my, xy, up) ==
    IF l.abs = <<>> THEN f64_one
    ELSE powf_scaled(l.neg # ny, bn_mul(my, l.abs), xy, up)

\* (m * 2^x) ^ ((-1)^ny * my * 2^xy), where m > 0 and my > 0
powf_positive(m, x, ny, my, xy, up) ==
    powf_of_log2(fx_log2(m, x), ny, my, xy, up)

\* b is an integer, and an odd one, where b is finite and not zero
is_integer(b) == expo(b) >= 0 \/ bn_mod_pow2(mant(b), -expo(b)) = <<>>
is_odd_integer(b) ==
    /\ expo(b) <= 0
    /\ bn_mod_pow2(mant(b), -expo(b)) = <<>>
    /\ bn_is_odd(bn_shr(mant(b), -expo(b)))

powf_signed(r, neg) == IF neg /\ ~is_nan(r) THEN [r EXCEPT !.neg = TRUE] ELSE r

\* the values of f64
F64Values == [neg : BOOLEAN, exp : 0..2047, frac : Seq(0..(BASE - 1))]

\* what the libm of the platform may be.  A libm is told by the set of the
\* arguments <<a, b>> for which its pow returns, of the two f64 that a
\* power is next to half-way between, the one above in magnitude; for the
\* other arguments of such a power it returns the one below.
LibmRoundings == SUBSET (F64Values \X F64Values)

\* a.powf(b) with the libm of the platform
f64_powf(a, b, libm) ==
    IF is_zero(b) \/ a = f64_one THEN f64_one
    ELSE IF is_nan(a) \/ is_nan(b) THEN f64_nan
    ELSE IF is_zero(a)
    THEN (IF b.neg
          THEN f64_infinity(a.neg /\ ~is_infinite(b) /\ is_odd_integer(b))
          ELSE f64_zero(a.neg /\ ~is_infinite(b) /\ is_odd_integer(b)))
    ELSE IF is_infinite(b)
    THEN (IF a = f64_neg(f64_one) THEN f64_one
          ELSE IF (a.exp >= 1023) # b.neg THEN f64_infinity(FALSE)
          ELSE f64_zero(FALSE))
    ELSE IF is_infinite(a)
    THEN (IF b.neg THEN f64_zero(a.neg /\ is_odd_integer(b))
          ELSE f64_infinity(a.neg /\ is_odd_integer(b)))
    ELSE IF a.neg /\ ~is_integer(b) THEN f64_nan
    ELSE powf_signed(powf_positive(mant(a), expo(a), b.neg, mant(b), expo(b),
                                   <<a, b>> \in libm),
                     a.neg /\ is_odd_integer(b))

(***************************************************************************)
(* str::parse::<f64> (dec2flt): an optional sign, then "inf", "infinity"   *)
(* or "nan" in either case, or digits with at most one '.' and at least    *)
(* one digit, and an optional exponent.  The value is the nearest f64.     *)
(***************************************************************************)
AsciiDigits == {"0", "1", "2", "3", "4", "5", "6", "7", "8", "9"}

AsciiLower(c) ==
    CASE c = "I" -> "i" [] c = "N" -> "n" [] c = "F" -> "f"
      [] c = "T" -> "t" [] c = "Y" -> "y" [] c = "A" -> "a" [] OTHER -> c

StripZeros(s) ==
    IF \A i \in DOMAIN s : s[i] = "0" THEN <<>>
    ELSE SubSeq(s, CHOOSE i \in DOMAIN s :
                       s[i] # "0" /\ \A j \in 1..i - 1 : s[j] = "0", Len(s))

IsNumber(s) == s # <<>> /\ \A i \in DOMAIN s : s[i] \in AsciiDigits

\* the value of a sequence of ASCII digits of an exponent, 1000000 where it
\* is greater
SmallDecimal(s) ==
    IF Len(StripZeros(s)) > 6 THEN 1000000
    ELSE bn_to_int(bn_from_digits(StripZeros(s)))

\* the least element of a set of positions, or none where it is empty
FirstOf(S, none) == IF S = {} THEN none ELSE Min(S)

\* m: the text before the exponent, with a '.' at dot (Len(m) + 1 where
\* it has none); x: the text of the exponent, after the 'e'
decimal_fields(m, x, has_exp, dots, dot, signed) ==
    [ok |-> /\ Cardinality(dots) <= 1
            /\ Len(m) > Cardinality(dots)
            /\ \A i \in DOMAIN m : m[i] \in AsciiDigits \cup {"."}
            /\ (has_exp => IsNumber(IF signed THEN Tail(x) ELSE x)),
     whole |-> SubSeq(m, 1, dot - 1),
     frac |-> SubSeq(m, dot + 1, Len(m)),
     exp |-> IF ~has_exp \/ ~IsNumber(IF signed THEN Tail(x) ELSE x) THEN 0
             ELSE IF signed /\ x[1] = "-" THEN -SmallDecimal(Tail(x))
             ELSE SmallDecimal(IF signed THEN Tail(x) ELSE x)]

decimal_dotted(m, x, has_exp, dots) ==
    decimal_fields(m, x, has_exp, dots, FirstOf(dots, Len(m) + 1),
                   x # <<>> /\ x[1] \in {"+", "-"})

decimal_split(s, e) ==
    decimal_dotted(SubSeq(s, 1, e - 1), SubSeq(s, e + 1, Len(s)),
                   e <= Len(s),
                   {i \in 1..e - 1 : s[i] = "."})

\* the parts of the text of a decimal: the digits before and after the '.'
\* and the exponent
decimal_parts(s) ==
    decimal_split(s, FirstOf({i \in DOMAIN s : s[i] \in {"e", "E"}},
                             Len(s) + 1))

\* 0.d1d2...dn * 10^k, the digits d being without leading zeros
decimal_to_f64(neg, d, k) ==
    IF d = <<>> \/ k < -330 THEN f64_zero(neg)
    ELSE IF k > 310 THEN f64_infinity(neg)
    ELSE IF k >= Len(d)
    THEN round_to_f64(neg, bn_mul(bn_from_digits(d), bn_pow10(k - Len(d))),
                      <<1>>, 0)
    ELSE round_to_f64(neg, bn_from_digits(d), bn_pow10(Len(d) - k), 0)

decimal_value(neg, p) ==
    IF ~p.ok THEN [ok |-> FALSE, err |-> "invalid float literal"]
    ELSE [ok |-> TRUE,
          val |-> decimal_to_f64(neg, StripZeros(p.whole \o p.frac),
                                 Len(StripZeros(p.whole \o p.frac))
                                 - Len(p.frac) + p.exp)]

parse_f64_unsigned(neg, s) ==
    IF [i \in DOMAIN s |-> AsciiLower(s[i])]
           \in {<<"i", "n", "f">>,
                <<"i", "n", "f", "i", "n", "i", "t", "y">>}
    THEN [ok |-> TRUE, val |-> f64_infinity(neg)]
    ELSE IF [i \in DOMAIN s |-> AsciiLower(s[i])] = <<"n", "a", "n">>
    THEN [ok |-> TRUE, val |-> f64_nan]
    ELSE decimal_value(neg, decimal_parts(s))

parse_f64(s) ==
    IF s = <<>>
    THEN [ok |-> FALSE, err |-> "cannot parse float from empty string"]
    ELSE IF s[1] \in {"+", "-"} THEN parse_f64_unsigned(s[1] = "-", Tail(s))
    ELSE parse_f64_unsigned(FALSE, s)

\* the i32 with the bits of the low 32 bits of the natural n
low_32_bits(n) ==
    (IF bn_is_odd(bn_shr(n, 31)) THEN -2147483647 - 1 ELSE 0)
    + bn_to_int(bn_mod_pow2(n, 31))

i32_wrapping_neg(i) == IF i = -2147483647 - 1 THEN i ELSE -i

\* w as i32: the low 32 bits of an i64
i64_as_i32(w) ==
    IF w.neg THEN i32_wrapping_neg(low_32_bits(w.abs))
    ELSE low_32_bits(w.abs)

(***************************************************************************)
(* object.rs: run-time values                                              *)
(***************************************************************************)
Null == [kind |-> "Null"]
IntObject(v) == [kind |-> "Int", value |-> v]
\* the value of a Float is an f64
Float(v) == [kind |-> "Float", value |-> v]
Bool(v) == [kind |-> "Bool", value |-> v]
\* a char is a Unicode scalar value, written as the one-character string of
\* an ASCII character or as "U+3042" for a scalar outside ASCII
Char(v) == [kind |-> "Char", value |-> v]

\* Str::new with the length counted in UTF-8 bytes (String::len) instead of
\* scalars
Str_counting_bytes(value) ==
    LET RECURSIVE bytes(_)
        bytes(l) == IF l = <<>>
                    THEN 0
                    ELSE (IF Len(l[1]) = 1 THEN 1 ELSE 3) + bytes(Tail(l))
    IN [kind |-> "Str", value |-> value, length |-> bytes(value)]

\* Str::new: the value is the sequence of the scalars of the string, length
\* is value.chars().count()
Str(value) == [kind |-> "Str", value |-> value, length |-> Len(value)]

Array(elements) == [kind |-> "Array", elements |-> elements]

\* Indexable::num_element
num_element(o) == IF o.kind = "Str" THEN o.length ELSE Len(o.elements)
ReturnValue(v) == [kind |-> "ReturnValue", value |-> v]
Function(parameters, body, e) ==
    [kind |-> "Function", parameters |-> parameters, body |-> body, env |-> e]
BuiltinFunction(name, parameters) ==
    [kind |-> "BuiltinFunction", name |-> name, parameters |-> parameters]

(***************************************************************************)
(* environment.rs                                                          *)
(***************************************************************************)
EmptyMap == [k \in {} |-> Null]

Environment_new(outer) == [m |-> EmptyMap, outer |-> outer]

\* Environment::get with the outer scopes searched before the scope itself
RECURSIVE get_outermost_first(_, _)
get_outermost_first(self, key) ==
    LET o == IF self.outer = None
             THEN None
             ELSE get_outermost_first(self.outer[1], key)
    IN IF o # None
       THEN o
       ELSE IF key \in DOMAIN self.m THEN Some(self.m[key]) ELSE None

RECURSIVE Environment_get(_, _)
Environment_get(self, key) ==
    IF key \in DOMAIN self.m
    THEN Some(self.m[key])
    ELSE IF self.outer = None
         THEN None
         ELSE Environment_get(self.outer[1], key)

Environment_set(self, key, value) ==
    [self EXCEPT !.m = [k \in (DOMAIN self.m) \cup {key} |->
                            IF k = key THEN value ELSE self.m[k]]]

\* Environment::try_set without the test for an existing binding
try_set_overwriting(self, key, value) ==
    [ok |-> TRUE, env |-> Environment_set(self, key, value)]

Environment_try_set(self, key, value) ==
    IF key \notin DOMAIN self.m
    THEN [ok |-> TRUE, env |-> Environment_set(self, key, value)]
    ELSE [ok |-> FALSE, env |-> self,
          err |-> "'" \o key \o "' is already defined"]

RECURSIVE Environment_set_outer(_, _)
Environment_set_outer(self, outer) ==
    [self EXCEPT !.outer =
        IF self.outer = None
        THEN outer
        ELSE Some(Environment_set_outer(self.outer[1], outer))]

(***************************************************************************)
(* ast.rs: nodes.  A node is a record tagged by 'node'.                    *)
(***************************************************************************)
RootNode(statements) == [node |-> "Root", statements |-> statements]
BlockExpressionNode(statements) == [node |-> "Block", statements |-> statements]
LetStatementNode(identifier, expression) ==
    [node |-> "Let", identifier |-> identifier, expression |-> expression]
\* expression is an Option
ReturnStatementNode(expression) == [node |-> "Return", expression |-> expression]
ExpressionStatementNode(expression) ==
    [node |-> "ExpressionStatement", expression |-> expression]
UnaryExpressionNode(operator, expression) ==
    [node |-> "Unary", operator |-> operator, expression |-> expression]
BinaryExpressionNode(operator, left, right) ==
    [node |-> "Binary", operator |-> operator, left |-> left, right |-> right]
IndexExpressionNode(array, index) ==
    [node |-> "Index", array |-> array, index |-> index]
CallExpressionNode(function, arguments) ==
    [node |-> "Call", function |-> function, arguments |-> arguments]
\* else_value is an Option
IfExpressionNode(condition, if_value, else_value) ==
    [node |-> "If", condition |-> condition, if_value |-> if_value,
     else_value |-> else_value]
\* the value of an IntegerLiteralNode is an i64: the integer v where it
\* is an i32, and the sign and the magnitude (wide) elsewhere
IntegerLiteralNode(v) == [node |-> "IntegerLiteral", value |-> v]
WideIntegerLiteralNode(w) == [node |-> "IntegerLiteral", wide |-> w]
FloatLiteralNode(v) == [node |-> "FloatLiteral", float |-> v]
CharacterLiteralNode(v) == [node |-> "CharacterLiteral", char |-> v]
StringLiteralNode(v) == [node |-> "StringLiteral", string |-> v]
BooleanLiteralNode(v) == [node |-> "BooleanLiteral", bool |-> v]
ArrayLiteralNode(elements) == [node |-> "ArrayLiteral", elements |-> elements]
FunctionLiteralNode(parameters, body) ==
    [node |-> "FunctionLiteral", parameters |-> parameters, body |-> body]
IdentifierNode(name) == [node |-> "Identifier", name |-> name]

(***************************************************************************)
(* EvalResult, together with the environment after the evaluation and the  *)
(* history.                                                                *)
(***************************************************************************)
Ok(v, e, h) == [ok |-> TRUE, val |-> v, env |-> e, h |-> h]
Err(msg, e, h) == [ok |-> FALSE, err |-> msg, env |-> e, h |-> h]

(***************************************************************************)
(* Error messages are the strings of the code with its backquotes written  *)
(* as apostrophes.                                                         *)
(*                                                                         *)
(* operator.rs.  An operator returns Ok(value) or Err(message); it touches *)
(* no environment.                                                         *)
(***************************************************************************)
OpOk(v) == [ok |-> TRUE, val |-> v]
OpErr(msg) == [ok |-> FALSE, err |-> msg]

try_cast(T1, T2, left, right) == left.kind = T1 /\ right.kind = T2

\* i32::MAX and i32::MIN, the bounds of the value of an Int
I32_MAX == 2147483647
I32_MIN == -2147483647 - 1

\* a panic of the evaluation is carried to the loop of the REPL as the
\* error "<panic: message>"; the process ends there
PanicMessages ==
    {"<panic: attempt to negate with overflow>",
     "<panic: attempt to add with overflow>",
     "<panic: attempt to subtract with overflow>",
     "<panic: attempt to multiply with overflow>",
     "<panic: attempt to divide with overflow>",
     "<panic: attempt to calculate the remainder with overflow>",
     "<panic: attempt to divide by zero>",
     "<panic: called 'Option::unwrap()' on a 'None' value>"}

\* the evaluation has panicked
panicked(r) == ~r.ok /\ r.err \in PanicMessages

\* truncated division and remainder of Rust's '/' and '%' (b # 0, and not
\* i32::MIN by -1)
Abs(a) == IF a < 0 THEN -a ELSE a
TruncDiv(a, b) ==
    IF b = I32_MIN THEN (IF a = I32_MIN THEN 1 ELSE 0)
    ELSE IF a = I32_MIN
    THEN IF b = 1 THEN I32_MIN
         ELSE LET q == (I32_MAX \div Abs(b))
                       + (IF I32_MAX % Abs(b) = Abs(b) - 1 THEN 1 ELSE 0)
              IN IF b < 0 THEN q ELSE -q
    ELSE IF (a < 0) = (b < 0) THEN Abs(a) \div Abs(b)
    ELSE -(Abs(a) \div Abs(b))
TruncRem(a, b) == a - b * TruncDiv(a, b)

\* the arithmetic of i32 in a build with overflow checks: the operation
\* panics where its result is not an i32
add_overflows(a, b) ==
    \/ b > 0 /\ a > I32_MAX - b
    \/ b < 0 /\ a < I32_MIN - b
sub_overflows(a, b) ==
    \/ b < 0 /\ a > I32_MAX + b
    \/ b > 0 /\ a < I32_MIN + b
mul_overflows(a, b) ==
    IF a = 0 \/ b = 0 THEN FALSE
    ELSE IF a = I32_MIN THEN b # 1
    ELSE IF b = I32_MIN THEN a # 1
    ELSE IF (a < 0) = (b < 0) THEN Abs(a) > I32_MAX \div Abs(b)
    ELSE /\ Abs(a) > I32_MAX \div Abs(b)
         /\ ~(/\ Abs(b) >= 2
               /\ 1073741824 % Abs(b) = 0
               /\ Abs(a) = 2 * (1073741824 \div Abs(b)))
\* a * b where it does not overflow
mul(a, b) ==
    IF a = 0 \/ b = 0 THEN 0
    ELSE IF a = I32_MIN \/ b = I32_MIN THEN I32_MIN
    ELSE IF (a < 0) = (b < 0) THEN Abs(a) * Abs(b)
    ELSE IF Abs(a) > I32_MAX \div Abs(b) THEN I32_MIN
    ELSE -(Abs(a) * Abs(b))

\* the order of char (the scalar values) and of String (lexicographic in
\* the scalars), for the scalars the modelled programs contain
Scalars == {"a", "b", "c", "p", "U+3042", "U+3044"}

CodePoint ==
    [c \in Scalars |->
        CASE c = "a" -> 97 [] c = "b" -> 98 [] c = "c" -> 99 [] c = "p" -> 112
          [] c = "U+3042" -> 12354 [] c = "U+3044" -> 12356]

RECURSIVE StringLess(_, _)
StringLess(x, y) ==
    IF y = <<>> THEN FALSE
    ELSE IF x = <<>> THEN TRUE
    ELSE IF x[1] # y[1] THEN CodePoint[x[1]] < CodePoint[y[1]]
    ELSE StringLess(Tail(x), Tail(y))

\* '<', '<=' and '==' of two values of one of the ordered kinds; no
\* comparison with a NaN holds
Less(kind, x, y) ==
    IF kind = "Char" THEN CodePoint[x] < CodePoint[y]
    ELSE IF kind = "Str" THEN StringLess(x, y)
    ELSE IF kind = "Float" THEN f64_lt(x, y)
    ELSE x < y

LessEq(kind, x, y) ==
    IF kind = "Float" THEN f64_le(x, y) ELSE ~Less(kind, y, x)

Equal(kind, x, y) == IF kind = "Float" THEN f64_eq(x, y) ELSE x = y

\* i32::pow(self, exp), by repeated squaring: Ok(value), or the panic of
\* a multiplication that overflows
RECURSIVE pow_loop(_, _, _)
pow_loop(base, exp, acc) ==
    IF exp % 2 = 1
    THEN IF mul_overflows(acc, base)
         THEN OpErr("<panic: attempt to multiply with overflow>")
         ELSE IF exp = 1 THEN OpOk(mul(acc, base))
         ELSE IF mul_overflows(base, base)
         THEN OpErr("<panic: attempt to multiply with overflow>")
         ELSE pow_loop(mul(base, base), exp \div 2, mul(acc, base))
    ELSE IF mul_overflows(base, base)
    THEN OpErr("<panic: attempt to multiply with overflow>")
    ELSE pow_loop(mul(base, base), exp \div 2, acc)

Pow(a, n) == IF n = 0 THEN OpOk(1) ELSE pow_loop(a, n, 1)

unary_minus(o) ==
    IF o.kind = "Int"
    THEN IF o.value = I32_MIN
         THEN OpErr("<panic: attempt to negate with overflow>")
         ELSE OpOk(IntObject(-o.value))
    ELSE IF o.kind = "Float" THEN OpOk(Float(f64_neg(o.value)))
    ELSE OpErr("operand of unary '-' is not a number")

\* unary_invert negating the truth value that the built-in 'bool' gives to
\* a number, a string or an array
invert_truthiness(o) ==
    IF o.kind = "Bool" THEN OpOk(Bool(~o.value))
    ELSE IF o.kind = "Int" THEN OpOk(Bool(o.value = 0))
    ELSE IF o.kind = "Float"
    THEN OpOk(Bool(f64_eq(o.value, f64_zero(FALSE))))
    ELSE IF o.kind = "Str" THEN OpOk(Bool(o.value = <<>>))
    ELSE IF o.kind = "Array" THEN OpOk(Bool(o.elements = <<>>))
    ELSE OpErr("operand of unary '!' is not a boolean")

unary_invert(o) ==
    IF o.kind = "Bool" THEN OpOk(Bool(~o.value))
    ELSE OpErr("operand of unary '!' is not a boolean")

binary_plus(left, right) ==
    IF try_cast("Int", "Int", left, right)
    THEN IF add_overflows(left.value, right.value)
         THEN OpErr("<panic: attempt to add with overflow>")
         ELSE OpOk(IntObject(left.value + right.value))
    ELSE IF try_cast("Float", "Float", left, right)
    THEN OpOk(Float(f64_add(left.value, right.value)))
    ELSE IF try_cast("Str", "Str", left, right)
    THEN OpOk(Str(left.value \o right.value))
    ELSE IF try_cast("Array", "Array", left, right)
    THEN OpOk(Array(left.elements \o right.elements))
    ELSE OpErr("operand of binary '+' is not a number, a string nor an array")

binary_minus(left, right) ==
    IF try_cast("Int", "Int", left, right)
    THEN IF sub_overflows(left.value, right.value)
         THEN OpErr("<panic: attempt to subtract with overflow>")
         ELSE OpOk(IntObject(left.value - right.value))
    ELSE IF try_cast("Float", "Float", left, right)
    THEN OpOk(Float(f64_sub(left.value, right.value)))
    ELSE OpErr("operand of binary '-' is not a number")

binary_asterisk(left, right) ==
    IF try_cast("Int", "Int", left, right)
    THEN IF mul_overflows(left.value, right.value)
         THEN OpErr("<panic: attempt to multiply with overflow>")
         ELSE OpOk(IntObject(mul(left.value, right.value)))
    ELSE IF try_cast("Float", "Float", left, right)
    THEN OpOk(Float(f64_mul(left.value, right.value)))
    ELSE OpErr("operand of binary '*' is not a number")

binary_slash(left, right) ==
    IF try_cast("Int", "Int", left, right)
    THEN IF left.value = 0
         THEN OpErr("zero division")
         ELSE IF right.value = 0
              THEN OpErr("<panic: attempt to divide by zero>")
              ELSE IF left.value = I32_MIN /\ right.value = -1
              THEN OpErr("<panic: attempt to divide with overflow>")
              ELSE OpOk(IntObject(TruncDiv(left.value, right.value)))
    ELSE IF try_cast("Float", "Float", left, right)
    THEN IF f64_eq(right.value, f64_zero(FALSE))
         THEN OpErr("zero division")
         ELSE OpOk(Float(f64_div(left.value, right.value)))
    ELSE OpErr("operand of binary '/' is not a number")

binary_percent(left, right) ==
    IF try_cast("Int", "Int", left, right)
    THEN IF right.value = 0
         THEN OpErr("zero division in '%'")
         ELSE IF left.value = I32_MIN /\ right.value = -1
         THEN OpErr("<panic: attempt to calculate the remainder with "
                    \o "overflow>")
         ELSE OpOk(IntObject(TruncRem(left.value, right.value)))
    ELSE IF try_cast("Float", "Float", left, right)
    THEN IF f64_eq(right.value, f64_zero(FALSE))
         THEN OpErr("zero division in '%'")
         ELSE OpOk(Float(f64_rem(left.value, right.value)))
    ELSE OpErr("operand of binary '%' is not a number")

binary_power(left, right, libm) ==
    IF try_cast("Int", "Int", left, right)
    THEN IF right.value < 0
         THEN OpErr("negative exponent in <int>**<int> operation")
         ELSE IF Pow(left.value, right.value).ok
         THEN OpOk(IntObject(Pow(left.value, right.value).val))
         ELSE Pow(left.value, right.value)
    ELSE IF try_cast("Float", "Float", left, right)
    THEN OpOk(Float(f64_powf(left.value, right.value, libm)))
    ELSE OpErr("operand of binary '**' is not a number")

binary_eq(left, right) ==
    IF \/ try_cast("Int", "Int", left, right)
       \/ try_cast("Float", "Float", left, right)
       \/ try_cast("Bool", "Bool", left, right)
       \/ try_cast("Char", "Char", left, right)
       \/ try_cast("Str", "Str", left, right)
    THEN OpOk(Bool(Equal(left.kind, left.value, right.value)))
    ELSE OpErr("unsupported operand type for binary '=='")

binary_noteq(left, right) ==
    IF \/ try_cast("Int", "Int", left, right)
       \/ try_cast("Float", "Float", left, right)
       \/ try_cast("Bool", "Bool", left, right)
       \/ try_cast("Char", "Char", left, right)
       \/ try_cast("Str", "Str", left, right)
    THEN OpOk(Bool(~Equal(left.kind, left.value, right.value)))
    ELSE OpErr("unsupported operand type for binary '!='")

binary_lt(left, right) ==
    IF \/ try_cast("Int", "Int", left, right)
       \/ try_cast("Float", "Float", left, right)
       \/ try_cast("Char", "Char", left, right)
       \/ try_cast("Str", "Str", left, right)
    THEN OpOk(Bool(Less(left.kind, left.value, right.value)))
    ELSE OpErr("unsupported operand type for binary '<'")

binary_gt(left, right) ==
    IF \/ try_cast("Int", "Int", left, right)
       \/ try_cast("Float", "Float", left, right)
       \/ try_cast("Char", "Char", left, right)
       \/ try_cast("Str", "Str", left, right)
    THEN OpOk(Bool(Less(left.kind, right.value, left.value)))
    ELSE OpErr("unsupported operand type for binary '>'")

binary_lteq(left, right) ==
    IF \/ try_cast("Int", "Int", left, right)
       \/ try_cast("Float", "Float", left, right)
       \/ try_cast("Char", "Char", left, right)
       \/ try_cast("Str", "Str", left, right)
    THEN OpOk(Bool(LessEq(left.kind, left.value, right.value)))
    ELSE OpErr("unsupported operand type for binary '<='")

binary_gteq(left, right) ==
    IF \/ try_cast("Int", "Int", left, right)
       \/ try_cast("Float", "Float", left, right)
       \/ try_cast("Char", "Char", left, right)
       \/ try_cast("Str", "Str", left, right)
    THEN OpOk(Bool(LessEq(left.kind, right.value, left.value)))
    ELSE OpErr("unsupported operand type for binary '>='")

binary_and(left, right) ==
    IF try_cast("Bool", "Bool", left, right)
    THEN OpOk(Bool(left.value /\ right.value))
    ELSE OpErr("operand of binary '&&' is not a boolean")

binary_or(left, right) ==
    IF try_cast("Bool", "Bool", left, right)
    THEN OpOk(Bool(left.value \/ right.value))
    ELSE OpErr("operand of binary '|| is not a boolean")

(***************************************************************************)
(* builtin.rs                                                              *)
(***************************************************************************)
BuiltinNames ==
    {"print", "eprint", "exit", "len", "append", "bool", "str", "int",
     "float", "pi"}

\* std::f64::consts::PI, 3.14159265358979323846264338327950288_f64: the
\* f64 0x400921FB54442D18, that is 3.141592653589793
PI == F64(FALSE, 1024, <<3352, 545, 7893, 4675>>)

\* the table built by initialize_builtin()
initialize_builtin ==
    [name \in BuiltinNames |->
        CASE name = "print"  -> BuiltinFunction("print", <<"o">>)
          [] name = "eprint" -> BuiltinFunction("eprint", <<"o">>)
          [] name = "exit"   -> BuiltinFunction("exit", <<"i">>)
          [] name = "len"    -> BuiltinFunction("len", <<"l">>)
          [] name = "append" -> BuiltinFunction("append", <<"l", "v">>)
          [] name = "bool"   -> BuiltinFunction("bool", <<"v">>)
          [] name = "str"    -> BuiltinFunction("str", <<"v">>)
          [] name = "int"    -> BuiltinFunction("int", <<"v">>)
          [] name = "float"  -> BuiltinFunction("float", <<"v">>)
          [] name = "pi"     -> Float(PI)]

lookup_builtin_identifier(s) ==
    IF s \in DOMAIN initialize_builtin THEN Some(initialize_builtin[s]) ELSE None

\* BuiltinFunction::call: the host closure of the built-in, applied to the
\* frame that binds its parameters.  'print' and 'eprint' write a line,
\* recorded in the history; 'exit' ends the process.
BuiltinFunction_call(f, fenv, e, h) ==
    LET arg(p) == Environment_get(fenv, p)[1] IN
    CASE f.name = "print" ->
            Ok(Null, e, Append(h, [ev |-> "print", value |-> arg("o")]))
      [] f.name = "eprint" ->
            Ok(Null, e, Append(h, [ev |-> "eprint", value |-> arg("o")]))
      [] f.name = "exit" ->
            IF arg("i").kind = "Int"
            THEN Err("<process exit>", e,
                     Append(h, [ev |-> "exit", value |-> arg("i")]))
            ELSE Err("argument type mismatch", e, h)
      [] f.name = "len" ->
            IF arg("l").kind = "Str"
            THEN Ok(IntObject(Len(arg("l").value)), e, h)
            ELSE IF arg("l").kind = "Array"
            THEN Ok(IntObject(Len(arg("l").elements)), e, h)
            ELSE Err("argument type mismatch", e, h)
      [] f.name = "append" ->
            IF arg("l").kind = "Array"
            THEN Ok(Array(Append(arg("l").elements, arg("v"))), e, h)
            ELSE Err("argument type mismatch", e, h)
      [] f.name = "bool" ->
            IF arg("v").kind = "Int"
            THEN Ok(Bool(arg("v").value # 0), e, h)
            ELSE IF arg("v").kind = "Float"
            THEN Ok(Bool(~f64_eq(arg("v").value, f64_zero(FALSE))), e, h)
            ELSE IF arg("v").kind = "Str"
            THEN Ok(Bool(arg("v").value # <<>>), e, h)
            ELSE IF arg("v").kind = "Array"
            THEN Ok(Bool(arg("v").elements # <<>>), e, h)
            ELSE Err("argument type mismatch", e, h)
      [] f.name = "str" ->
            IF arg("v").kind = "Char"
            THEN Ok(Str(<<arg("v").value>>), e, h)
            ELSE Err("argument type mismatch", e, h)
      [] f.name = "int" ->
            IF arg("v").kind = "Float"
            THEN Ok(IntObject(i64_as_i32(f64_as_i64(arg("v").value))),
                    e, h)
            ELSE Err("argument type mismatch", e, h)
      [] f.name = "float" ->
            IF arg("v").kind = "Int"
            THEN Ok(Float(f64_from_i32(arg("v").value)), e, h)
            ELSE Err("argument type mismatch", e, h)

(***************************************************************************)
(* evaluator.rs                                                            *)
(*                                                                         *)
(* History events, appended in the order the code takes the steps:         *)
(*   eval         eval() is called on node with the environment env        *)
(*   ident        eval_identifier_node resolved (or failed to resolve) a   *)
(*                name in env; found is the Option it got                  *)
(*   rhs          eval_let_statement_node evaluated the right-hand side,   *)
(*                env being the environment the binding is to be made in   *)
(*   let          eval_let_statement_node inserted a binding               *)
(*   return       eval_return_statement_node built ReturnValue(value)      *)
(*   block_enter  eval_block_expression_node created the block scope for   *)
(*                a block evaluated in env; block is the position of this  *)
(*                event                                                    *)
(*   block_exit   the block 'block' ended without an error, its caller     *)
(*                continuing in env                                        *)
(*   call         the callee is resolved and the arity accepted; id is the *)
(*                position of this event, env the caller's environment     *)
(*   arg          argument i of call 'call' is about to be evaluated in    *)
(*                env                                                      *)
(*   arg_done     argument i of call 'call' is evaluated to value and      *)
(*                bound                                                    *)
(*   body         the body of the user function of call 'call' is entered  *)
(*   ret          call 'call' of a user function ended with value, its     *)
(*                caller continuing in env                                 *)
(*   builtin      the host function of the built-in of call 'call' is      *)
(*                invoked                                                  *)
(*   fn           eval_function_literal_node built the Function value      *)
(*   unary        eval_unary_expression_node evaluated its operand to the  *)
(*                value operand and applied the operator, with outcome     *)
(*   left_done    eval_binary_expression_node evaluated the left operand   *)
(*                of the expression whose eval event is at, to value       *)
(*   binary       eval_binary_expression_node evaluated the right operand  *)
(*                too and applies the operator to left and right           *)
(*   index        eval_index_expression_node evaluated its target and its  *)
(*                index to the values target and index                     *)
(*   print, eprint, exit   the effect of the built-in                      *)
(***************************************************************************)
\* 'let r = <expression>;' of the code: the value is computed once and the
\* rest of the function, K, goes on with it
Then(r, K(_)) == K(r)

\* '<expression>?' of the code: an Err ends the function with that Err, an
\* Ok lets the rest of the function, K, go on with the result
Try(r, K(_)) == IF r.ok THEN K(r) ELSE r

RECURSIVE eval(_, _, _, _)
RECURSIVE eval_root_node(_, _, _, _)
RECURSIVE eval_root_node_loop(_, _, _, _, _, _)
RECURSIVE eval_block_expression_node(_, _, _, _)
RECURSIVE eval_block_expression_node_loop(_, _, _, _, _, _)
RECURSIVE eval_let_statement_node(_, _, _, _)
RECURSIVE eval_return_statement_node(_, _, _, _)
RECURSIVE eval_expression_statement_node(_, _, _, _)
RECURSIVE eval_unary_expression_node(_, _, _, _)
RECURSIVE eval_binary_expression_node(_, _, _, _)
RECURSIVE eval_index_expression_node(_, _, _, _)
RECURSIVE eval_call_expression_node(_, _, _, _)
RECURSIVE eval_call_expression_node_function(_, _, _, _)
RECURSIVE eval_call_expression_node_call(_, _, _)
RECURSIVE eval_call_expression_node_arguments(_, _, _, _, _, _, _, _)
RECURSIVE eval_if_expression_node(_, _, _, _)
RECURSIVE eval_array_literal_node(_, _, _, _)
RECURSIVE eval_array_literal_node_loop(_, _, _, _, _, _)

\* the value of the node, an i64, becomes the value of an Int, an i32:
\* the low 32 bits of it
eval_integer_literal_node(n, e, h) ==
    Ok(IntObject(IF "value" \in DOMAIN n THEN n.value
                 ELSE i64_as_i32(n.wide)), e, h)

eval_float_literal_node(n, e, h) == Ok(Float(n.float), e, h)

eval_boolean_literal_node(n, e, h) == Ok(Bool(n.bool), e, h)

eval_character_literal_node(n, e, h) == Ok(Char(n.char), e, h)

eval_string_literal_node(n, e, h) == Ok(Str(n.string), e, h)

eval_function_literal_node(n, e, h) ==
    LET f == Function(n.parameters, n.body, e)
    IN Ok(f, e, Append(h, [ev |-> "fn", value |-> f]))

\* eval_identifier_node with the environment searched before the built-ins
identifier_environment_first(n, e, h) ==
    LET g == Environment_get(e, n.name)
        b == lookup_builtin_identifier(n.name)
        found == IF g # None THEN g ELSE b
        h1 == Append(h, [ev |-> "ident", name |-> n.name, found |-> found,
                         env |-> e])
    IN IF found = None
       THEN Err("'" \o n.name \o "' is not defined", e, h1)
       ELSE Ok(found[1], e, h1)

eval_identifier_node(n, e, h) ==
    LET b == lookup_builtin_identifier(n.name) IN
    IF b # None
    THEN Ok(b[1], e, Append(h, [ev |-> "ident", name |-> n.name, found |-> b,
                                env |-> e]))
    ELSE LET g == Environment_get(e, n.name)
             h1 == Append(h, [ev |-> "ident", name |-> n.name, found |-> g,
                              env |-> e])
         IN IF g = None
            THEN Err("'" \o n.name \o "' is not defined", e, h1)
            ELSE Ok(g[1], e, h1)

eval(node, e, h, libm) ==
    LET h0 == Append(h, [ev |-> "eval", node |-> node, env |-> e]) IN
    CASE node.node = "Root" -> eval_root_node(node, e, h0, libm)
      [] node.node = "Block" -> eval_block_expression_node(node, e, h0, libm)
      [] node.node = "Let" -> eval_let_statement_node(node, e, h0, libm)
      [] node.node = "Return" -> eval_return_statement_node(node, e, h0, libm)
      [] node.node = "ExpressionStatement" ->
            eval_expression_statement_node(node, e, h0, libm)
      [] node.node = "Unary" -> eval_unary_expression_node(node, e, h0, libm)
      [] node.node = "Binary" -> eval_binary_expression_node(node, e, h0, libm)
      [] node.node = "Index" -> eval_index_expression_node(node, e, h0, libm)
      [] node.node = "Call" -> eval_call_expression_node(node, e, h0, libm)
      [] node.node = "If" -> eval_if_expression_node(node, e, h0, libm)
      [] node.node = "IntegerLiteral" -> eval_integer_literal_node(node, e, h0)
      [] node.node = "FloatLiteral" -> eval_float_literal_node(node, e, h0)
      [] node.node = "BooleanLiteral" -> eval_boolean_literal_node(node, e, h0)
      [] node.node = "CharacterLiteral" ->
            eval_character_literal_node(node, e, h0)
      [] node.node = "StringLiteral" -> eval_string_literal_node(node, e, h0)
      [] node.node = "ArrayLiteral" -> eval_array_literal_node(node, e, h0,
              libm)
      [] node.node = "FunctionLiteral" ->
            eval_function_literal_node(node, e, h0)
      [] node.node = "Identifier" -> eval_identifier_node(node, e, h0)
      [] OTHER -> Err("not yet implemented or a bug of interpreter", e, h0)

\* eval_root_node_loop with the error of a statement dropped: the loop goes
\* on with the next statement
RECURSIVE root_loop_ignoring_errors(_, _, _, _, _, _)
root_loop_ignoring_errors(statements, i, ret, e, h, libm) ==
    IF i > Len(statements)
    THEN Ok(ret, e, h)
    ELSE Then(eval(statements[i], e, h, libm), LAMBDA r :
             IF ~r.ok
             THEN root_loop_ignoring_errors(statements, i + 1, ret, r.env, r.h,
                     libm)
             ELSE IF r.val.kind = "ReturnValue"
             THEN Ok(r.val.value, r.env, r.h)
             ELSE root_loop_ignoring_errors(statements, i + 1, r.val, r.env,
                                            r.h, libm))

\* the 'for statement in n.statements()' loop of eval_root_node, from
\* statement i on
eval_root_node_loop(statements, i, ret, e, h, libm) ==
    IF i > Len(statements)
    THEN Ok(ret, e, h)
    ELSE Try(eval(statements[i], e, h, libm), LAMBDA r :
             IF r.val.kind = "ReturnValue"
             THEN Ok(r.val.value, r.env, r.h)
             ELSE eval_root_node_loop(statements, i + 1, r.val, r.env, r.h,
                     libm))

eval_root_node(n, e, h, libm) ==
    eval_root_node_loop(n.statements, 1, Null, e, h, libm)

\* the loop of eval_block_expression_node, from statement i on, in block_env
eval_block_expression_node_loop(statements, i, ret, block_env, h, libm) ==
    IF i > Len(statements)
    THEN Ok(ret, block_env, h)
    ELSE Try(eval(statements[i], block_env, h, libm), LAMBDA r :
             IF r.val.kind = "ReturnValue"
             THEN r
             ELSE eval_block_expression_node_loop(statements, i + 1, r.val,
                                                  r.env, r.h, libm))

\* eval_block_expression_node with the statements run in the environment of
\* the caller itself
block_in_enclosing_scope(n, e, h, libm) ==
    Then(eval_block_expression_node_loop(
             n.statements, 1, Null, e,
             Append(h, [ev |-> "block_enter", block |-> Len(h) + 1,
                        env |-> e]), libm), LAMBDA r :
        IF ~r.ok
        THEN r
        ELSE Ok(r.val, r.env, Append(r.h, [ev |-> "block_exit",
                                           block |-> Len(h) + 1,
                                           env |-> r.env])))

\* env is '&Environment': the statements run in block_env, whose outer is a
\* clone of env, and the caller goes on with env
eval_block_expression_node(n, e, h, libm) ==
    Then(eval_block_expression_node_loop(
             n.statements, 1, Null, Environment_new(Some(e)),
             Append(h, [ev |-> "block_enter", block |-> Len(h) + 1,
                        env |-> e]), libm), LAMBDA r :
        IF ~r.ok
        THEN Err(r.err, e, r.h)
        ELSE Ok(r.val, e, Append(r.h, [ev |-> "block_exit",
                                       block |-> Len(h) + 1, env |-> e])))

\* eval_let_statement_node binding with Environment::set, which replaces an
\* existing binding, instead of Environment::try_set
let_statement_overwriting(n, e, h, libm) ==
    IF lookup_builtin_identifier(n.identifier) # None
    THEN Err("'" \o n.identifier \o "' is a built-in identifier", e, h)
    ELSE Try(eval(n.expression, e, h, libm), LAMBDA o :
             Ok(Null, Environment_set(o.env, n.identifier, o.val),
                Append(Append(o.h, [ev |-> "rhs", name |-> n.identifier,
                                    value |-> o.val, env |-> o.env]),
                       [ev |-> "let", name |-> n.identifier,
                        value |-> o.val])))

eval_let_statement_node(n, e, h, libm) ==
    IF lookup_builtin_identifier(n.identifier) # None
    THEN Err("'" \o n.identifier \o "' is a built-in identifier", e, h)
    ELSE Try(eval(n.expression, e, h, libm), LAMBDA o :
             LET t == Environment_try_set(o.env, n.identifier, o.val)
                 h1 == Append(o.h, [ev |-> "rhs", name |-> n.identifier,
                                    value |-> o.val, env |-> o.env])
             IN IF ~t.ok
                THEN Err(t.err, t.env, h1)
                ELSE Ok(Null, t.env,
                        Append(h1, [ev |-> "let", name |-> n.identifier,
                                    value |-> o.val])))

eval_return_statement_node(n, e, h, libm) ==
    IF n.expression = None
    THEN Ok(ReturnValue(Null), e, Append(h, [ev |-> "return", value |-> Null]))
    ELSE Try(eval(n.expression[1], e, h, libm), LAMBDA o :
             Ok(ReturnValue(o.val), o.env,
                Append(o.h, [ev |-> "return", value |-> o.val])))

eval_expression_statement_node(n, e, h, libm) == eval(n.expression, e, h, libm)

\* format!("{:?}", t) of the token that a node keeps as its operator (the
\* model keeps the characters of an operator or a delimiter, and the same
\* text for any other token)
operator_debug(operator) ==
    CASE operator = "=" -> "Assign"
      [] operator = "+" -> "Plus"
      [] operator = "-" -> "Minus"
      [] operator = "*" -> "Asterisk"
      [] operator = "/" -> "Slash"
      [] operator = "%" -> "Percent"
      [] operator = "**" -> "Power"
      [] operator = "!" -> "Invert"
      [] operator = "==" -> "Eq"
      [] operator = "!=" -> "NotEq"
      [] operator = "<" -> "Lt"
      [] operator = ">" -> "Gt"
      [] operator = "<=" -> "LtEq"
      [] operator = ">=" -> "GtEq"
      [] operator = "&&" -> "And"
      [] operator = "||" -> "Or"
      [] operator = "," -> "Comma"
      [] operator = ";" -> "Semicolon"
      [] operator = "(" -> "Lparen"
      [] operator = ")" -> "Rparen"
      [] operator = "{" -> "Lbrace"
      [] operator = "}" -> "Rbrace"
      [] operator = "[" -> "Lbracket"
      [] operator = "]" -> "Rbracket"
      [] OTHER -> operator

eval_unary_expression_node(n, e, h, libm) ==
    Try(eval(n.expression, e, h, libm), LAMBDA o :
        LET r == CASE n.operator = "-" -> unary_minus(o.val)
                   [] n.operator = "!" -> unary_invert(o.val)
                   [] OTHER -> OpErr("unknown unary operator: '"
                                     \o operator_debug(n.operator) \o "'")
            h1 == Append(o.h, [ev |-> "unary", operator |-> n.operator,
                               operand |-> o.val, outcome |-> r])
        IN IF r.ok THEN Ok(r.val, o.env, h1) ELSE Err(r.err, o.env, h1))

\* the 'match n.operator()' of eval_binary_expression_node
binary_operator(operator, l, r, libm) ==
    CASE operator = "+" -> binary_plus(l, r)
      [] operator = "-" -> binary_minus(l, r)
      [] operator = "*" -> binary_asterisk(l, r)
      [] operator = "/" -> binary_slash(l, r)
      [] operator = "%" -> binary_percent(l, r)
      [] operator = "**" -> binary_power(l, r, libm)
      [] operator = "==" -> binary_eq(l, r)
      [] operator = "!=" -> binary_noteq(l, r)
      [] operator = "<" -> binary_lt(l, r)
      [] operator = ">" -> binary_gt(l, r)
      [] operator = "<=" -> binary_lteq(l, r)
      [] operator = ">=" -> binary_gteq(l, r)
      [] operator = "&&" -> binary_and(l, r)
      [] operator = "||" -> binary_or(l, r)
      [] OTHER -> OpErr("unknown binary operator: '"
                        \o operator_debug(operator) \o "'")

\* eval_binary_expression_node with '&&' and '||' short-circuited: the right
\* operand is not evaluated when the left one decides the value
binary_short_circuit(n, e, h, libm) ==
    Try(eval(n.left, e, h, libm), LAMBDA l :
    Then(Ok(l.val, l.env, Append(l.h, [ev |-> "left_done", at |-> Len(h),
                                       value |-> l.val])), LAMBDA left :
    IF /\ left.val.kind = "Bool"
       /\ \/ n.operator = "&&" /\ ~left.val.value
          \/ n.operator = "||" /\ left.val.value
    THEN Ok(left.val, left.env, left.h)
    ELSE
    Try(eval(n.right, left.env, left.h, libm), LAMBDA right :
    Then(binary_operator(n.operator, left.val, right.val, libm), LAMBDA o :
    Then(Append(right.h, [ev |-> "binary", at |-> Len(h),
                          left |-> left.val, right |-> right.val]),
         LAMBDA h1 :
        IF o.ok THEN Ok(o.val, right.env, h1)
                ELSE Err(o.err, right.env, h1))))))

\* h ends with the eval event of this node, whose position names the
\* expression in the events
eval_binary_expression_node(n, e, h, libm) ==
    Try(eval(n.left, e, h, libm), LAMBDA l :
    Then(Ok(l.val, l.env, Append(l.h, [ev |-> "left_done", at |-> Len(h),
                                       value |-> l.val])), LAMBDA left :
    Try(eval(n.right, left.env, left.h, libm), LAMBDA right :
    Then(binary_operator(n.operator, left.val, right.val, libm), LAMBDA o :
    Then(Append(right.h, [ev |-> "binary", at |-> Len(h),
                          left |-> left.val, right |-> right.val]),
         LAMBDA h1 :
        IF o.ok THEN Ok(o.val, right.env, h1)
                ELSE Err(o.err, right.env, h1))))))

eval_index_expression_node(n, e, h, libm) ==
    Try(IF n.array.node \in {"ArrayLiteral", "StringLiteral"}
        THEN eval(n.array, e, h, libm)
        ELSE IF n.array.node = "Identifier"
        THEN Try(eval_identifier_node(n.array, e, h), LAMBDA a :
                 IF a.val.kind \in {"Array", "Str"}
                 THEN a
                 ELSE Err("'" \o n.array.name
                          \o "' is not an array nor a string", a.env, a.h))
        ELSE Err("only identifier, array literal or string literal can be indexed",
                 e, h),
        LAMBDA target :
    Try(eval(n.index, target.env, target.h, libm), LAMBDA i :
    Then(Ok(i.val, i.env, Append(i.h, [ev |-> "index", target |-> target.val,
                                       index |-> i.val])), LAMBDA index :
        IF index.val.kind # "Int"
        THEN Err("non-integer array index found", index.env, index.h)
        ELSE IF index.val.value < 0
        THEN Err("negative array index not allowed", index.env, index.h)
        ELSE IF index.val.value >= num_element(target.val)
        THEN Err("array index out of bounds", index.env, index.h)
        ELSE IF target.val.kind = "Array"
        THEN Ok(target.val.elements[index.val.value + 1], index.env, index.h)
        ELSE IF index.val.value >= Len(target.val.value)
        THEN Err("<panic: called 'Option::unwrap()' on a 'None' value>",
                 index.env, index.h)
        ELSE Ok(Char(target.val.value[index.val.value + 1]), index.env,
                index.h))))

\* eval_call_expression_node_arguments with the arguments evaluated from the
\* last parameter to the first
RECURSIVE arguments_right_to_left(_, _, _, _, _, _, _, _)
arguments_right_to_left(n, id, parameters, i, function_env, e, h, libm) ==
    IF i > Len(parameters)
    THEN [ok |-> TRUE, function_env |-> function_env, env |-> e, h |-> h]
    ELSE Then(Len(parameters) + 1 - i, LAMBDA k :
         Try(eval(n.arguments[k], e,
                  Append(h, [ev |-> "arg", call |-> id, i |-> k, env |-> e]),
                          libm),
             LAMBDA a :
                 arguments_right_to_left(
                     n, id, parameters, i + 1,
                     Environment_set(function_env, parameters[k], a.val),
                     a.env,
                     Append(a.h, [ev |-> "arg_done", call |-> id, i |-> k,
                                  value |-> a.val]), libm)))

\* the 'for (i, param) in parameters.iter().enumerate()' loop of
\* eval_call_expression_node, from parameter i on (i is 1-based here): each
\* argument is evaluated in the caller's env and bound in function_env
eval_call_expression_node_arguments(n, id, parameters, i, function_env, e, h, libm) ==
    IF i > Len(parameters)
    THEN [ok |-> TRUE, function_env |-> function_env, env |-> e, h |-> h]
    ELSE Try(eval(n.arguments[i], e,
                  Append(h, [ev |-> "arg", call |-> id, i |-> i, env |-> e]),
                          libm),
             LAMBDA a :
                 eval_call_expression_node_arguments(
                     n, id, parameters, i + 1,
                     Environment_set(function_env, parameters[i], a.val),
                     a.env,
                     Append(a.h, [ev |-> "arg_done", call |-> id, i |-> i,
                                  value |-> a.val]), libm))

\* call_function_env with the caller's environment looked up before the
\* captured one
caller_before_captured(function, function_env, e) ==
    [function_env |->
         Environment_set_outer(
             function_env, Some(Environment_set_outer(e, Some(function.env)))),
     env |-> e]

\* call_function_env with the captured environment looked up before the
\* parameter frame
captured_before_parameters(function, function_env, e) ==
    [function_env |->
         Environment_set_outer(
             function.env,
             Some(Environment_set_outer(function_env, Some(e)))),
     env |-> e]

\* call_function_env with the captured environment linked to the caller's
\* environment itself, not to a clone of it
caller_linked_in_place(function, function_env, e) ==
    [function_env |->
         Environment_set_outer(
             function_env, Some(Environment_set_outer(function.env, Some(e)))),
     env |-> Environment_set_outer(e, Some(function.env))]

\* the two 'set_outer' of eval_call_expression_node.  function_env is the
\* environment the body of a user function runs its block in: function_env
\* (the parameter frame), then a clone of the captured environment, then a
\* clone of the caller's environment as the outer-most end of the chain.
\* env is the caller's environment, which the links leave as it is.
call_function_env(function, function_env, e) ==
    [function_env |->
         Environment_set_outer(
             function_env, Some(Environment_set_outer(function.env, Some(e)))),
     env |-> e]

\* eval_call_expression_node_function with the callee evaluated whatever
\* its form is
function_of_any_expression(n, e, h, libm) ==
    Try(eval(n.function, e, h, libm), LAMBDA g :
        IF g.val.kind \in {"Function", "BuiltinFunction"}
        THEN g
        ELSE Err("only identifier or function literal can be called",
                 g.env, g.h))

\* the 'let function = loop { .. }' of eval_call_expression_node: the callee
\* is a function literal or an identifier
eval_call_expression_node_function(n, e, h, libm) ==
    IF n.function.node = "FunctionLiteral"
    THEN eval(n.function, e, h, libm)
    ELSE IF n.function.node = "Identifier"
    THEN Try(eval_identifier_node(n.function, e, h), LAMBDA g :
             IF g.val.kind \in {"Function", "BuiltinFunction"}
             THEN g
             ELSE Err("'" \o n.function.name \o "' is not a function",
                      g.env, g.h))
    ELSE Err("only identifier or function literal can be called", e, h)

\* eval_call_expression_node from 'let mut function_env' on: the callee f
\* is resolved and the number of arguments accepted
eval_call_expression_node_call(n, f, libm) ==
    LET function == f.val
        id == Len(f.h) + 1
    IN
    Try(eval_call_expression_node_arguments(
            n, id, function.parameters, 1, Environment_new(None), f.env,
            Append(f.h, [ev |-> "call", call |-> id, env |-> f.env,
                         nargs |-> Len(n.arguments)]), libm),
        LAMBDA args :
    IF function.kind = "Function"
    THEN Then(call_function_env(function, args.function_env, args.env),
              LAMBDA c :
         Then(eval_block_expression_node(
                  function.body, c.function_env,
                  Append(args.h, [ev |-> "body", call |-> id,
                                  function |-> function]), libm),
              LAMBDA r :
         IF ~r.ok
         THEN Err(r.err, c.env, r.h)
         ELSE LET v == IF r.val.kind = "ReturnValue"
                       THEN r.val.value
                       ELSE r.val
              IN Ok(v, c.env,
                    Append(r.h, [ev |-> "ret", call |-> id, value |-> v,
                                 env |-> c.env]))))
    ELSE BuiltinFunction_call(
             function,
             Environment_set_outer(args.function_env, Some(args.env)),
             args.env,
             Append(args.h, [ev |-> "builtin", call |-> id,
                             name |-> function.name])))

\* eval_call_expression_node with the number of arguments checked after
\* the arguments are evaluated
call_checking_arity_late(n, e, h, libm) ==
    Try(eval_call_expression_node_function(n, e, h, libm), LAMBDA f :
    IF Len(n.arguments) # Len(f.val.parameters)
    THEN Try(eval_array_literal_node_loop(n.arguments, 1, <<>>, f.env, f.h,
            libm),
             LAMBDA a : Err("argument number mismatch", a.env, a.h))
    ELSE eval_call_expression_node_call(n, f, libm))

eval_call_expression_node(n, e, h, libm) ==
    Try(eval_call_expression_node_function(n, e, h, libm), LAMBDA f :
    IF Len(n.arguments) # Len(f.val.parameters)
    THEN Err("argument number mismatch", f.env, f.h)
    ELSE eval_call_expression_node_call(n, f, libm))

eval_if_expression_node(n, e, h, libm) ==
    Try(eval(n.condition, e, h, libm), LAMBDA condition :
        IF condition.val.kind # "Bool"
        THEN Err("if condition is not a boolean", condition.env, condition.h)
        ELSE IF condition.val.value
        THEN eval(n.if_value, condition.env, condition.h, libm)
        ELSE IF n.else_value # None
        THEN eval(n.else_value[1], condition.env, condition.h, libm)
        ELSE Ok(Null, condition.env, condition.h))

eval_array_literal_node_loop(elements, i, v, e, h, libm) ==
    IF i > Len(elements)
    THEN Ok(Array(v), e, h)
    ELSE Try(eval(elements[i], e, h, libm), LAMBDA r :
             eval_array_literal_node_loop(elements, i + 1, Append(v, r.val),
                                          r.env, r.h, libm))

eval_array_literal_node(n, e, h, libm) ==
    eval_array_literal_node_loop(n.elements, 1, <<>>, e, h, libm)

(***************************************************************************)
(* Programs.  The lines a session reads, as the trees the parser builds    *)
(* for the source text given in the comments.                              *)
(***************************************************************************)
I(v) == IntegerLiteralNode(v)
B(v) == BooleanLiteralNode(v)
Id(x) == IdentifierNode(x)
Let(x, e) == LetStatementNode(x, e)
Ret(e) == ReturnStatementNode(Some(e))
RetBare == ReturnStatementNode(None)
Ex(e) == ExpressionStatementNode(e)
Blk(statements) == BlockExpressionNode(statements)
Fn(parameters, statements) == FunctionLiteralNode(parameters, Blk(statements))
Call(f, arguments) == CallExpressionNode(f, arguments)
If(c, statements) == IfExpressionNode(c, Blk(statements), None)
IfElse(c, s1, s2) == IfExpressionNode(c, Blk(s1), Some(Blk(s2)))
Bin(op, l, r) == BinaryExpressionNode(op, l, r)
Un(op, e) == UnaryExpressionNode(op, e)
\* the Float literal written s
F(s) == FloatLiteralNode(parse_f64(s).val)
Ch(c) == CharacterLiteralNode(c)
St(l) == StringLiteralNode(l)
Arr(l) == ArrayLiteralNode(l)
Idx(a, i) == IndexExpressionNode(a, i)
\* an integer written in the source: a negative one is the unary minus of a
\* literal
Num(v) == IF v < 0 THEN Un("-", I(-v)) ELSE I(v)
Prog(statements) == RootNode(statements)

\* the statements `inner` wrapped d times in a block expression of shape w:
\*   "block"  { inner 8 }      "if"  if (true) { inner 8 }
\*   "else"   if (false) { 6 } else { inner 8 }
RECURSIVE Nest(_, _, _)
Nest(d, w, inner) ==
    IF d = 0
    THEN inner
    ELSE LET body == Nest(d - 1, w, inner) \o <<Ex(I(8))>> IN
         CASE w = "block" -> <<Ex(Blk(body))>>
           [] w = "if"    -> <<Ex(If(B(TRUE), body))>>
           [] w = "else"  -> <<Ex(IfElse(B(FALSE), <<Ex(I(6))>>, body))>>

\*   5; W{ .. W{ return [7]; 8 } .. 8 } 9
ReturnPrograms ==
    { Prog(<<Ex(I(5))>> \o Nest(d, w, <<r>>) \o <<Ex(I(9))>>) :
        d \in 0..MaxNest, w \in {"block", "if", "else"},
        r \in {RetBare, Ret(I(7))} }

\*   { let a = 1; { let a = 2; .. a } a }, d blocks deep, each level reading
\*   a after the inner block has ended
RECURSIVE Shadow(_, _)
Shadow(k, d) ==
    IF k > d
    THEN <<>>
    ELSE <<Ex(Blk(<<Let("a", I(k))>> \o Shadow(k + 1, d) \o <<Ex(Id("a"))>>))>>

ShadowPrograms == { Prog(Shadow(1, d)) : d \in 1..(MaxNest + 1) }

Factorial ==
    Fn(<<"x">>, <<Ex(If(Bin("==", Id("x"), I(0)), <<Ret(I(1))>>)),
                  Ret(Bin("*", Id("x"),
                          Call(Id("factorial"), <<Bin("-", Id("x"), I(1))>>)))>>)

\* the programs of tests::test03 .. test07 of evaluator.rs
TestPrograms == {
    \* if (true) { let a = 3; } a
    Prog(<<Ex(If(B(TRUE), <<Let("a", I(3))>>)), Ex(Id("a"))>>),
    \* 5; return 2 * 5; 15
    Prog(<<Ex(I(5)), Ret(Bin("*", I(2), I(5))), Ex(I(15))>>),
    \* if (10 > 1) { if (10 > 1) { return 10; } return 1; }
    Prog(<<Ex(If(Bin(">", I(10), I(1)),
                 <<Ex(If(Bin(">", I(10), I(1)), <<Ret(I(10))>>)),
                   Ret(I(1))>>))>>),
    \* let a = 1; let b = a * 2; a + b
    Prog(<<Let("a", I(1)), Let("b", Bin("*", Id("a"), I(2))),
           Ex(Bin("+", Id("a"), Id("b")))>>),
    \* let a = { let b = 3; b * 2 }; b
    Prog(<<Let("a", Blk(<<Let("b", I(3)), Ex(Bin("*", Id("b"), I(2)))>>)),
           Ex(Id("b"))>>),
    \* let a = 1; let a = 2;
    Prog(<<Let("a", I(1)), Let("a", I(2))>>),
    \* let f = fn(x, y) { x + y }; f(1, 2)
    Prog(<<Let("f", Fn(<<"x", "y">>, <<Ex(Bin("+", Id("x"), Id("y")))>>)),
           Ex(Call(Id("f"), <<I(1), I(2)>>))>>),
    \* fn() { return 3; }()
    Prog(<<Ex(Call(Fn(<<>>, <<Ret(I(3))>>), <<>>))>>),
    \* let f = fn() { return 3; 4 }; let a = f(); f(); return 100;
    Prog(<<Let("f", Fn(<<>>, <<Ret(I(3)), Ex(I(4))>>)),
           Let("a", Call(Id("f"), <<>>)), Ex(Call(Id("f"), <<>>)),
           Ret(I(100))>>),
    \* let f = fn(x) { fn(y) { x + y } }; let g = f(1); g(2)
    Prog(<<Let("f", Fn(<<"x">>,
                       <<Ex(Fn(<<"y">>, <<Ex(Bin("+", Id("x"), Id("y")))>>))>>)),
           Let("g", Call(Id("f"), <<I(1)>>)),
           Ex(Call(Id("g"), <<I(2)>>))>>),
    \* let f = fn(g) { g(10) }; let g = fn(x) { x * 10 }; f(g)
    Prog(<<Let("f", Fn(<<"g">>, <<Ex(Call(Id("g"), <<I(10)>>))>>)),
           Let("g", Fn(<<"x">>, <<Ex(Bin("*", Id("x"), I(10)))>>)),
           Ex(Call(Id("f"), <<Id("g")>>))>>),
    \* let factorial = fn(x) { if (x == 0) { return 1; }
    \*                         return x * factorial(x - 1); }; factorial(2)
    Prog(<<Let("factorial", Factorial), Ex(Call(Id("factorial"), <<I(2)>>))>>),
    \* let f = 3; f(3)
    Prog(<<Let("f", I(3)), Ex(Call(Id("f"), <<I(3)>>))>>),
    \* let f = fn(x) { x; }; f(5, 10)
    Prog(<<Let("f", Fn(<<"x">>, <<Ex(Id("x"))>>)),
           Ex(Call(Id("f"), <<I(5), I(10)>>))>>),
    \* 1(3)
    Prog(<<Ex(Call(I(1), <<I(3)>>))>> ) }

\* a block or if expression that executes a return, in a place other than
\* an expression statement
MarkerPrograms == {
    \* let a = { return 3; }; 5
    Prog(<<Let("a", Blk(<<Ret(I(3))>>)), Ex(I(5))>>),
    \* return { return 1; };
    Prog(<<Ret(Blk(<<Ret(I(1))>>))>>),
    \* let f = fn() { return if (true) { return 3; }; }; f(); 100
    Prog(<<Let("f", Fn(<<>>, <<Ret(If(B(TRUE), <<Ret(I(3))>>))>>)),
           Ex(Call(Id("f"), <<>>)), Ex(I(100))>>),
    \* let f = fn() { let a = { return 3; }; 4 }; f()
    Prog(<<Let("f", Fn(<<>>, <<Let("a", Blk(<<Ret(I(3))>>)), Ex(I(4))>>)),
           Ex(Call(Id("f"), <<>>))>>),
    \* { return 1; } + 2
    Prog(<<Ex(Bin("+", Blk(<<Ret(I(1))>>), I(2)))>>) }

\* closures: where the free names of a body are resolved
ScopePrograms == {
    \* let f = fn() { a }; { let a = 1; f() }
    Prog(<<Let("f", Fn(<<>>, <<Ex(Id("a"))>>)),
           Ex(Blk(<<Let("a", I(1)), Ex(Call(Id("f"), <<>>))>>))>>),
    \* { let a = 1; let f = fn() { a }; { let a = 2; f() } }
    Prog(<<Ex(Blk(<<Let("a", I(1)), Let("f", Fn(<<>>, <<Ex(Id("a"))>>)),
                    Ex(Blk(<<Let("a", I(2)), Ex(Call(Id("f"), <<>>))>>))>>))>>),
    \* let g = { let f = fn() { y }; let y = 3; f }; g()
    Prog(<<Let("g", Blk(<<Let("f", Fn(<<>>, <<Ex(Id("y"))>>)),
                          Let("y", I(3)), Ex(Id("f"))>>)),
           Ex(Call(Id("g"), <<>>))>>),
    \* { let f = fn() { y }; let y = 3; f() }
    Prog(<<Ex(Blk(<<Let("f", Fn(<<>>, <<Ex(Id("y"))>>)), Let("y", I(3)),
                    Ex(Call(Id("f"), <<>>))>>))>>),
    \* let h = { let factorial = fn(x) { .. }; factorial }; h(1)
    Prog(<<Let("h", Blk(<<Let("factorial", Factorial), Ex(Id("factorial"))>>)),
           Ex(Call(Id("h"), <<I(1)>>))>>),
    \* let f = fn(a) { let b = a + 1; { let a = b; a } + a }; f(1); b
    Prog(<<Let("f", Fn(<<"a">>,
                       <<Let("b", Bin("+", Id("a"), I(1))),
                         Ex(Bin("+", Blk(<<Let("a", Id("b")), Ex(Id("a"))>>),
                                Id("a")))>>)),
           Ex(Call(Id("f"), <<I(1)>>)), Ex(Id("b"))>>),
    \* fn(x) { let x = 1; x }(5)
    Prog(<<Ex(Call(Fn(<<"x">>, <<Let("x", I(1)), Ex(Id("x"))>>), <<I(5)>>))>>),
    \* { let a = 1; let a = zz; }
    Prog(<<Ex(Blk(<<Let("a", I(1)), Let("a", Id("zz"))>>))>>),
    \* { let b = 1; { let b = 2; let b = 3; } }
    Prog(<<Ex(Blk(<<Let("b", I(1)),
                    Ex(Blk(<<Let("b", I(2)), Let("b", I(3))>>))>>))>>) }

\* calls: the evaluation of the arguments
CallPrograms == {
    \* let k = fn(x, y) { print(3); x }; k(print(1), print(2))
    Prog(<<Let("k", Fn(<<"x", "y">>,
                       <<Ex(Call(Id("print"), <<I(3)>>)), Ex(Id("x"))>>)),
           Ex(Call(Id("k"), <<Call(Id("print"), <<I(1)>>),
                              Call(Id("print"), <<I(2)>>)>>))>>),
    \* fn(x, y, z) { print(4) }(print(1), zz, print(3))
    Prog(<<Ex(Call(Fn(<<"x", "y", "z">>, <<Ex(Call(Id("print"), <<I(4)>>))>>),
                   <<Call(Id("print"), <<I(1)>>), Id("zz"),
                     Call(Id("print"), <<I(3)>>)>>))>>),
    \* { let a = 5; let p = fn(a, b) { a - b }; p(p(a, 1), a) }
    Prog(<<Ex(Blk(<<Let("a", I(5)),
                    Let("p", Fn(<<"a", "b">>, <<Ex(Bin("-", Id("a"), Id("b")))>>)),
                    Ex(Call(Id("p"), <<Call(Id("p"), <<Id("a"), I(1)>>),
                                       Id("a")>>))>>))>>),
    \* len(append(append([], 1), print(2)))
    Prog(<<Ex(Call(Id("len"),
                   <<Call(Id("append"),
                          <<Call(Id("append"), <<ArrayLiteralNode(<<>>), I(1)>>),
                            Call(Id("print"), <<I(2)>>)>>)>>))>>),
    \* append(zz, print(1))
    Prog(<<Ex(Call(Id("append"), <<Id("zz"), Call(Id("print"), <<I(1)>>)>>))>>),
    \* print(1); exit(2); print(3)
    Prog(<<Ex(Call(Id("print"), <<I(1)>>)), Ex(Call(Id("exit"), <<I(2)>>)),
           Ex(Call(Id("print"), <<I(3)>>))>>) }

\* built-in names used as the name of a let or of a parameter
BuiltinPrograms == {
    \* let len = 1;
    Prog(<<Let("len", I(1))>>),
    \* { { let pi = print(1); } }
    Prog(<<Ex(Blk(<<Ex(Blk(<<Let("pi", Call(Id("print"), <<I(1)>>))>>))>>))>>),
    \* fn() { let print = zz; }()
    Prog(<<Ex(Call(Fn(<<>>, <<Let("print", Id("zz"))>>), <<>>))>>),
    \* fn(len) { len }(5)
    Prog(<<Ex(Call(Fn(<<"len">>, <<Ex(Id("len"))>>), <<I(5)>>))>>),
    \* let m = fn(len) { { len([1, 2]) } }; m(3)
    Prog(<<Let("m", Fn(<<"len">>,
                       <<Ex(Blk(<<Ex(Call(Id("len"),
                                          <<ArrayLiteralNode(<<I(1), I(2)>>)>>))>>))>>)),
           Ex(Call(Id("m"), <<I(3)>>))>>),
    \* fn(len) { len; { let pi = print(1); } }(5)
    Prog(<<Ex(Call(Fn(<<"len">>,
                      <<Ex(Id("len")),
                        Ex(Blk(<<Let("pi", Call(Id("print"), <<I(1)>>))>>))>>),
                   <<I(5)>>))>>),
    \* pi(1)
    Prog(<<Ex(Call(Id("pi"), <<I(1)>>))>>) }

\* lines that define or use one name of the session
SessionPrograms == {
    \* let a = 1;
    Prog(<<Let("a", I(1))>>),
    \* let y = 2;
    Prog(<<Let("y", I(2))>>),
    \* let f = fn() { a };
    Prog(<<Let("f", Fn(<<>>, <<Ex(Id("a"))>>))>>),
    \* let f = fn() { y };
    Prog(<<Let("f", Fn(<<>>, <<Ex(Id("y"))>>))>>),
    \* f()
    Prog(<<Ex(Call(Id("f"), <<>>))>>),
    \* { let a = 4; f() }
    Prog(<<Ex(Blk(<<Let("a", I(4)), Ex(Call(Id("f"), <<>>))>>))>>),
    \* a
    Prog(<<Ex(Id("a"))>>),
    \* let a = 1; zz; let y = 2;
    Prog(<<Let("a", I(1)), Ex(Id("zz")), Let("y", I(2))>>),
    \* let y = 2; let y = 3; let a = 1;
    Prog(<<Let("y", I(2)), Let("y", I(3)), Let("a", I(1))>>),
    \* let a = 5; a
    Prog(<<Let("a", I(5)), Ex(Id("a"))>>),
    \* (the empty program)
    Prog(<<>>) }

\* a / b and a % b
DivisionOperands == {-7, 0, 2, 7}

DivisionProgram(op, a, b) == Prog(<<Ex(Bin(op, Num(a), Num(b)))>>)

DivisionPrograms ==
    { DivisionProgram(op, a, b) :
        op \in {"/", "%"}, a \in DivisionOperands, b \in DivisionOperands }

\* T[X] and let t = T; t[X], for an array or a string T of length 0 or 3
IndexTargets ==
    {Arr(<<>>), Arr(<<I(10), Ch("b"), I(30)>>), St(<<>>), St(<<"a", "U+3042", "b">>)}

IndexValues ==
    {Num(i) : i \in (-1)..MaxIndex}
    \cup {F(<<"1", ".", "0">>), Un("!", B(FALSE)), St(<<"a">>), Arr(<<>>)}

IndexPrograms ==
    { Prog(<<Ex(Idx(t, x))>>) : t \in IndexTargets, x \in IndexValues }
    \cup { Prog(<<Let("t", t), Ex(Idx(Id("t"), x))>>) :
              t \in IndexTargets, x \in IndexValues }
    \* let b = 3; b[0]     3.14[0]     b[0]
    \cup { Prog(<<Let("b", I(3)), Ex(Idx(Id("b"), I(0)))>>),
            Prog(<<Ex(Idx(F(<<"3", ".", "1", "4">>), I(0)))>>),
            Prog(<<Ex(Idx(Id("b"), I(0)))>>) }

\* calls whose callee is not an identifier
CalleePrograms == {
    \* let f = fn(x) { fn(y) { x + y } }; f(1)(2)
    Prog(<<Let("f", Fn(<<"x">>,
                       <<Ex(Fn(<<"y">>, <<Ex(Bin("+", Id("x"), Id("y")))>>))>>)),
           Ex(Call(Call(Id("f"), <<I(1)>>), <<I(2)>>))>>),
    \* { len }([1])
    Prog(<<Ex(Call(Blk(<<Ex(Id("len"))>>), <<Arr(<<I(1)>>)>>))>>),
    \* if (true) { fn() { 1 } }()
    Prog(<<Ex(Call(If(B(TRUE), <<Ex(Fn(<<>>, <<Ex(I(1))>>))>>), <<>>))>>),
    \* let a = [len]; a[0]([1, 2])
    Prog(<<Let("a", Arr(<<Id("len")>>)),
           Ex(Call(Idx(Id("a"), I(0)), <<Arr(<<I(1), I(2)>>)>>))>>),
    \* "a"(1)
    Prog(<<Ex(Call(St(<<"a">>), <<I(1)>>))>>),
    \* { 1 }(2)
    Prog(<<Ex(Call(Blk(<<Ex(I(1))>>), <<I(2)>>))>>),
    \* fn(x) { x }(1, 2)
    Prog(<<Ex(Call(Fn(<<"x">>, <<Ex(Id("x"))>>), <<I(1), I(2)>>))>>),
    \* fn(x) { x }(7)
    Prog(<<Ex(Call(Fn(<<"x">>, <<Ex(Id("x"))>>), <<I(7)>>))>>),
    \* len()
    Prog(<<Ex(Call(Id("len"), <<>>))>>),
    \* len("ab")
    Prog(<<Ex(Call(Id("len"), <<St(<<"a", "b">>)>>))>>) }

\* binary expressions: the evaluation of the operands
BinaryPrograms == {
    \* false && 0
    Prog(<<Ex(Bin("&&", B(FALSE), I(0)))>>),
    \* true || 0
    Prog(<<Ex(Bin("||", B(TRUE), I(0)))>>),
    \* false && print(1)
    Prog(<<Ex(Bin("&&", B(FALSE), Call(Id("print"), <<I(1)>>)))>>),
    \* true || zz
    Prog(<<Ex(Bin("||", B(TRUE), Id("zz")))>>),
    \* false || true
    Prog(<<Ex(Bin("||", B(FALSE), B(TRUE)))>>),
    \* true && { print(1); false }
    Prog(<<Ex(Bin("&&", B(TRUE),
                  Blk(<<Ex(Call(Id("print"), <<I(1)>>)), Ex(B(FALSE))>>)))>>),
    \* zz + print(1)
    Prog(<<Ex(Bin("+", Id("zz"), Call(Id("print"), <<I(1)>>)))>>),
    \* print(1) + zz
    Prog(<<Ex(Bin("+", Call(Id("print"), <<I(1)>>), Id("zz")))>>),
    \* (1 + 2) * (3 - 1)
    Prog(<<Ex(Bin("*", Bin("+", I(1), I(2)), Bin("-", I(3), I(1))))>>),
    \* let a = 2; a * a == a + a
    Prog(<<Let("a", I(2)),
           Ex(Bin("==", Bin("*", Id("a"), Id("a")),
                  Bin("+", Id("a"), Id("a"))))>>),
    \* "a" + "b" < "b"
    Prog(<<Ex(Bin("<", Bin("+", St(<<"a">>), St(<<"b">>)), St(<<"b">>)))>>),
    \* 'a' >= 'b'
    Prog(<<Ex(Bin(">=", Ch("a"), Ch("b")))>>) }

\* !x for a value x of every kind (tests::test01), and -x
InvertOperands ==
    {B(TRUE), B(FALSE), Un("!", B(TRUE)), I(0), I(1), Un("!", I(0)),
     Un("!", I(1)), F(<<"0", ".", "0">>), F(<<"3", ".", "1", "4">>), St(<<>>), St(<<"U+3042">>), Arr(<<>>),
     Arr(<<I(1), I(2)>>), Ch("a"), Call(Id("print"), <<I(1)>>), Id("len"),
     Fn(<<>>, <<Ex(I(1))>>), Id("zz")}

UnaryPrograms ==
    { Prog(<<Ex(Un("!", x))>>) : x \in InvertOperands }
    \* [!true, !0]     -5     --5     -3.14     -true
    \cup { Prog(<<Ex(Arr(<<Un("!", B(TRUE)), Un("!", I(0))>>))>>),
            Prog(<<Ex(Un("-", I(5)))>>),
            Prog(<<Ex(Un("-", Un("-", I(5))))>>),
            Prog(<<Ex(Un("-", F(<<"3", ".", "1", "4">>)))>>),
            Prog(<<Ex(Un("-", B(TRUE)))>>) }

\* closures called with parameters, more than once and from several scopes
ClosurePrograms == {
    \* let x = 1; let f = fn(x) { x }; f(2)
    Prog(<<Let("x", I(1)), Let("f", Fn(<<"x">>, <<Ex(Id("x"))>>)),
           Ex(Call(Id("f"), <<I(2)>>))>>),
    \* let x = 1; let y = 2; let f = fn(x) { x + y }; { let y = 10; f(y) }
    Prog(<<Let("x", I(1)), Let("y", I(2)),
           Let("f", Fn(<<"x">>, <<Ex(Bin("+", Id("x"), Id("y")))>>)),
           Ex(Blk(<<Let("y", I(10)), Ex(Call(Id("f"), <<Id("y")>>))>>))>>),
    \* let mk = fn(x) { fn(y) { x + y } }; let add = mk(1); let x = 5; add(2)
    Prog(<<Let("mk", Fn(<<"x">>,
                        <<Ex(Fn(<<"y">>, <<Ex(Bin("+", Id("x"), Id("y")))>>))>>)),
           Let("add", Call(Id("mk"), <<I(1)>>)), Let("x", I(5)),
           Ex(Call(Id("add"), <<I(2)>>))>>),
    \* let c = fn(n) { let t = n; t }; c(1); { let t = 7; c(t) } + c(2)
    Prog(<<Let("c", Fn(<<"n">>, <<Let("t", Id("n")), Ex(Id("t"))>>)),
           Ex(Call(Id("c"), <<I(1)>>)),
           Ex(Bin("+", Blk(<<Let("t", I(7)), Ex(Call(Id("c"), <<Id("t")>>))>>),
                  Call(Id("c"), <<I(2)>>)))>>),
    \* let k = fn(a, a) { a }; k(1, 2)
    Prog(<<Let("k", Fn(<<"a", "a">>, <<Ex(Id("a"))>>)),
           Ex(Call(Id("k"), <<I(1), I(2)>>))>>),
    \* let w = fn() { zz }; w(); w
    Prog(<<Let("w", Fn(<<>>, <<Ex(Id("zz"))>>)), Ex(Call(Id("w"), <<>>)),
           Ex(Id("w"))>>) }

\* calls with a number of arguments that is not the number of parameters
ArityPrograms == {
    \* let f = fn() { print(9) }; f(print(1))
    Prog(<<Let("f", Fn(<<>>, <<Ex(Call(Id("print"), <<I(9)>>))>>)),
           Ex(Call(Id("f"), <<Call(Id("print"), <<I(1)>>)>>))>>),
    \* fn(x) { print(x) }(zz, print(1))
    Prog(<<Ex(Call(Fn(<<"x">>, <<Ex(Call(Id("print"), <<Id("x")>>))>>),
                   <<Id("zz"), Call(Id("print"), <<I(1)>>)>>))>>),
    \* len(print(1), zz)
    Prog(<<Ex(Call(Id("len"), <<Call(Id("print"), <<I(1)>>), Id("zz")>>))>>),
    \* let g = fn(x, y) { print(x) }; g(print(1))
    Prog(<<Let("g", Fn(<<"x", "y">>, <<Ex(Call(Id("print"), <<Id("x")>>))>>)),
           Ex(Call(Id("g"), <<Call(Id("print"), <<I(1)>>)>>))>>),
    \* let g = fn(x, y) { x }; g(g(1), 2)
    Prog(<<Let("g", Fn(<<"x", "y">>, <<Ex(Id("x"))>>)),
           Ex(Call(Id("g"), <<Call(Id("g"), <<I(1)>>), I(2)>>))>>) }

Programs ==
    ReturnPrograms \cup ShadowPrograms \cup TestPrograms \cup MarkerPrograms
    \cup ScopePrograms \cup CallPrograms \cup BuiltinPrograms
    \cup SessionPrograms \cup DivisionPrograms \cup IndexPrograms
    \cup CalleePrograms \cup BinaryPrograms \cup UnaryPrograms
    \cup ClosurePrograms \cup ArityPrograms

(***************************************************************************)
(* util.rs: character classes and the escape table                         *)
(*                                                                         *)
(* A char is a Unicode scalar value, written as a one-character string for *)
(* an ASCII character ("\t", "\n", "\f" and "\r" among them), as "U+0000"  *)
(* for NUL, "U+0001" for another control character and "U+3042" for a      *)
(* scalar outside ASCII.                                                   *)
(***************************************************************************)
AsciiAlphabetic ==
    {"a", "b", "c", "d", "e", "f", "g", "h", "i", "j", "k", "l", "m",
     "n", "o", "p", "q", "r", "s", "t", "u", "v", "w", "x", "y", "z",
     "A", "B", "C", "D", "E", "F", "G", "H", "I", "J", "K", "L", "M",
     "N", "O", "P", "Q", "R", "S", "T", "U", "V", "W", "X", "Y", "Z"}

\* char::is_ascii_whitespace: space, tab, line feed, form feed, carriage
\* return
AsciiWhitespace == {" ", "\t", "\n", "\f", "\r"}

is_identifier(c) == c \in AsciiAlphabetic \/ c \in AsciiDigits \/ c = "_"

\* lexer.rs calls this function util::is_number
is_digit(c) == c \in AsciiDigits \/ c = "."

\* parse_escaped_character with the character after an unknown escape
\* replaced by the backslash
escaped_unknown_as_backslash(c) ==
    CASE c = "\\" -> "\\"
      [] c = "'" -> "'"
      [] c = "\"" -> "\""
      [] c = "0" -> "U+0000"
      [] c = "n" -> "\n"
      [] c = "r" -> "\r"
      [] c = "t" -> "\t"
      [] OTHER -> "\\"

parse_escaped_character(c) ==
    CASE c = "\\" -> "\\"
      [] c = "'" -> "'"
      [] c = "\"" -> "\""
      [] c = "0" -> "U+0000"
      [] c = "n" -> "\n"
      [] c = "r" -> "\r"
      [] c = "t" -> "\t"
      [] OTHER -> c

(***************************************************************************)
(* token.rs                                                                *)
(***************************************************************************)
\* a Token without a payload
Tok(t) == [type |-> t]
TokIdent(s) == [type |-> "Ident", literal |-> s]
TokInt(v) == [type |-> "Int", int |-> v]
\* the payload of an Int is an i64: the integer int where it is an i32, and
\* the sign and the magnitude (wide) elsewhere
TokWideInt(w) == [type |-> "Int", wide |-> w]
TokFloat(v) == [type |-> "Float", float |-> v]
TokString(s) == [type |-> "String", string |-> s]
TokChar(c) == [type |-> "Char", char |-> c]

\* str::parse::<i64>: an optional sign and digits.  The value is
\* [ok |-> TRUE, val |-> v] where v is an i32 and
\* [ok |-> TRUE, wide |-> [neg |-> sign, abs |-> magnitude]] elsewhere.
\* the i64 of the sign and the magnitude n
i64_of(neg, n) ==
    IF neg
    THEN IF bn_cmp(n, bn_shl(<<1>>, 63)) > 0
         THEN [ok |-> FALSE, err |-> "number too small to fit in target type"]
         ELSE IF bn_cmp(n, bn_shl(<<1>>, 31)) = 0
         THEN [ok |-> TRUE, val |-> -2147483647 - 1]
         ELSE IF bn_bitlen(n) <= 31 THEN [ok |-> TRUE, val |-> -bn_to_int(n)]
         ELSE [ok |-> TRUE, wide |-> [neg |-> TRUE, abs |-> n]]
    ELSE IF bn_cmp(n, bn_shl(<<1>>, 63)) >= 0
    THEN [ok |-> FALSE, err |-> "number too large to fit in target type"]
    ELSE IF bn_bitlen(n) <= 31 THEN [ok |-> TRUE, val |-> bn_to_int(n)]
    ELSE [ok |-> TRUE, wide |-> [neg |-> FALSE, abs |-> n]]

parse_int(s) ==
    IF s = <<>>
    THEN [ok |-> FALSE, err |-> "cannot parse integer from empty string"]
    ELSE IF ~IsNumber(IF s[1] \in {"+", "-"} THEN Tail(s) ELSE s)
    THEN [ok |-> FALSE, err |-> "invalid digit found in string"]
    ELSE i64_of(s[1] = "-",
                bn_from_digits(StripZeros(IF s[1] \in {"+", "-"} THEN Tail(s)
                                          ELSE s)))

\* str::parse::<i32>
i32_of(i) ==
    IF i.ok /\ "wide" \in DOMAIN i
    THEN [ok |-> FALSE,
          err |-> IF i.wide.neg THEN "number too small to fit in target type"
                  ELSE "number too large to fit in target type"]
    ELSE i

parse_i32(s) == i32_of(parse_int(s))

\* the token of a parsed i64
TokIntOf(i) == IF "val" \in DOMAIN i THEN TokInt(i.val) ELSE TokWideInt(i.wide)

Contains(s, c) == \E i \in 1..Len(s) : s[i] = c

\* the two arms of a number: Token::Float(s.parse::<f64>()?) and
\* Token::Int(s.parse::<i64>()?)
float_token(f) ==
    IF f.ok THEN [res |-> "Ok", token |-> TokFloat(f.val)]
    ELSE [res |-> "Err", err |-> f.err]
int_token(i) ==
    IF i.ok THEN [res |-> "Ok", token |-> TokIntOf(i)]
    ELSE [res |-> "Err", err |-> i.err]

\* The result is [res |-> "Ok", token |-> t], [res |-> "Err", err |-> e],
\* or [res |-> "Panic"] where the match reaches unreachable!().
lookup_token(sequence) ==
    LET first_char == sequence[1]
        T(t) == [res |-> "Ok", token |-> Tok(t)]
    IN CASE sequence = <<"=">> -> T("Assign")
         [] sequence = <<"+">> -> T("Plus")
         [] sequence = <<"-">> -> T("Minus")
         [] sequence = <<"*">> -> T("Asterisk")
         [] sequence = <<"/">> -> T("Slash")
         [] sequence = <<"%">> -> T("Percent")
         [] sequence = <<"*", "*">> -> T("Power")
         [] sequence = <<"!">> -> T("Invert")
         [] sequence = <<"=", "=">> -> T("Eq")
         [] sequence = <<"!", "=">> -> T("NotEq")
         [] sequence = <<"<">> -> T("Lt")
         [] sequence = <<">">> -> T("Gt")
         [] sequence = <<"<", "=">> -> T("LtEq")
         [] sequence = <<">", "=">> -> T("GtEq")
         [] sequence = <<"&", "&">> -> T("And")
         [] sequence = <<"|", "|">> -> T("Or")
         [] sequence = <<",">> -> T("Comma")
         [] sequence = <<";">> -> T("Semicolon")
         [] sequence = <<"(">> -> T("Lparen")
         [] sequence = <<")">> -> T("Rparen")
         [] sequence = <<"{">> -> T("Lbrace")
         [] sequence = <<"}">> -> T("Rbrace")
         [] sequence = <<"[">> -> T("Lbracket")
         [] sequence = <<"]">> -> T("Rbracket")
         [] sequence = <<"f", "n">> -> T("Function")
         [] sequence = <<"l", "e", "t">> -> T("Let")
         [] sequence = <<"r", "e", "t", "u", "r", "n">> -> T("Return")
         [] sequence = <<"t", "r", "u", "e">> -> T("True")
         [] sequence = <<"f", "a", "l", "s", "e">> -> T("False")
         [] sequence = <<"i", "f">> -> T("If")
         [] sequence = <<"e", "l", "s", "e">> -> T("Else")
         [] OTHER ->
            IF first_char = "'"
            THEN [res |-> "Ok", token |-> TokChar(sequence[2])]
            ELSE IF first_char = "\""
            THEN [res |-> "Ok",
                  token |-> TokString(SubSeq(sequence, 2, Len(sequence) - 1))]
            ELSE IF is_digit(first_char)
            THEN IF Contains(sequence, ".")
                 THEN float_token(parse_f64(sequence))
                 ELSE int_token(parse_int(sequence))
            ELSE IF is_identifier(first_char)
            THEN [res |-> "Ok", token |-> TokIdent(sequence)]
            ELSE [res |-> "Panic"]

(***************************************************************************)
(* lexer.rs                                                                *)
(*                                                                         *)
(* A Lexer is the record of its three fields.  A function taking           *)
(* &mut self returns the lexer it leaves behind next to its result:        *)
(* [res |-> "Ok", val |-> v, lexer |-> l], [res |-> "Err", err |-> e,      *)
(* lexer |-> l] or, where the function panics, [res |-> "Panic",           *)
(* lexer |-> l].                                                           *)
(***************************************************************************)
LexOk(v, l) == [res |-> "Ok", val |-> v, lexer |-> l]
LexErr(e, l) == [res |-> "Err", err |-> e, lexer |-> l]
LexPanic(l) == [res |-> "Panic", lexer |-> l]

\* Vec::get(i).copied(), i counted from 0
get(input, i) == IF i < Len(input) THEN Some(input[i + 1]) ELSE None

\* input[a..b], a and b counted from 0
slice(input, a, b) == SubSeq(input, a + 1, b)

Lexer_new(input) ==
    [input |-> input, position |-> 0, ch |-> get(input, 0)]

read_next_char(l) ==
    [l EXCEPT !.position = l.position + 1,
              !.ch = get(l.input, l.position + 1)]

peek_next_char(l) == get(l.input, l.position + 1)

RECURSIVE eat_whitespace(_)
eat_whitespace(l) ==
    IF l.ch # None /\ l.ch[1] \in AsciiWhitespace
    THEN eat_whitespace(read_next_char(l))
    ELSE l

\* the loop 'while is_some && p(ch) { read_next_char() }' of
\* read_identifier (identifier = TRUE) and of read_number
RECURSIVE read_while(_, _)
read_while(l, identifier) ==
    IF l.ch # None
       /\ (IF identifier THEN is_identifier(l.ch[1]) ELSE is_digit(l.ch[1]))
    THEN read_while(read_next_char(l), identifier)
    ELSE l

read_identifier(l) ==
    LET l1 == read_while(l, TRUE)
    IN LexOk(slice(l.input, l.position, l1.position), l1)

read_number(l) ==
    LET l1 == read_while(l, FALSE)
        s == slice(l.input, l.position, l1.position)
    IN IF Cardinality({i \in 1..Len(s) : s[i] = "."}) >= 2
       THEN LexErr("two or more dot found in a number literal", l1)
       ELSE IF Len(s) = 1 /\ s[1] = "."
       THEN LexErr("isolated '.' found", l1)
       ELSE LexOk(s, l1)

\* the loop of read_string; s is the vector l of the code
RECURSIVE read_string_loop(_, _)
read_string_loop(l, s) ==
    LET l1 == read_next_char(l) IN
    IF l1.ch = None
    THEN LexErr("unexpected end of a string literal", l1)
    ELSE IF l1.ch[1] = "\""
    THEN LexOk(Append(s, "\""), l1)
    ELSE IF l1.ch[1] = "\\"
    THEN LET l2 == read_next_char(l1) IN
         IF l2.ch = None
         THEN LexErr("unexpected end of a string literal", l2)
         ELSE read_string_loop(
                  l2, Append(s, parse_escaped_character(l2.ch[1])))
    ELSE read_string_loop(l1, Append(s, l1.ch[1]))

read_string(l) ==
    LET r == read_string_loop(l, <<"\"">>)
    IN IF r.res = "Ok" THEN LexOk(r.val, read_next_char(r.lexer)) ELSE r

read_character(l) ==
    LET l1 == read_next_char(l) IN
    IF l1.ch = None \/ l1.ch[1] = "'"
    THEN LexErr("unexpected end of a character literal", l1)
    ELSE
    LET escaped == (l1.ch[1] = "\\")
        l2 == IF escaped THEN read_next_char(l1) ELSE l1
    IN
    IF l2.ch = None
    THEN LexErr("unexpected end of a character literal", l2)
    ELSE
    LET ret == IF escaped
               THEN <<"'", parse_escaped_character(l2.ch[1]), "'">>
               ELSE <<"'", l2.ch[1], "'">>
        l3 == read_next_char(l2)
    IN
    IF l3.ch = None
    THEN LexErr("unexpected end of a character literal", l3)
    ELSE IF l3.ch[1] # "'"
    THEN LexErr("character literal can contain only one character", l3)
    ELSE LexOk(ret, read_next_char(l3))

\* the HashMap m of get_next_token
TwoCharacterOperators ==
    [c \in {"=", "!", "*", ">", "<", "&", "|"} |->
        CASE c = "=" -> <<"=", "=">>
          [] c = "!" -> <<"!", "=">>
          [] c = "*" -> <<"*", "*">>
          [] c = ">" -> <<">", "=">>
          [] c = "<" -> <<"<", "=">>
          [] c = "&" -> <<"&", "&">>
          [] c = "|" -> <<"|", "|">>]

\* the arm 'c => {..}' of get_next_token: an operator or a delimiter
read_operator(l) ==
    LET c == l.ch[1]
        next_ch == peek_next_char(l)
    IN
    IF c \in {"=", "!", "*", ">", "<"}
    THEN IF next_ch # None /\ next_ch[1] = TwoCharacterOperators[c][2]
         THEN LexOk(TwoCharacterOperators[c],
                    read_next_char(read_next_char(l)))
         ELSE LexOk(<<c>>, read_next_char(l))
    ELSE IF c \in {"&", "|"}
    THEN IF next_ch = None
         THEN LexErr("unexpected end of input", l)
         ELSE IF next_ch[1] # TwoCharacterOperators[c][2]
         THEN LexErr(IF c = "&" THEN "'&&' expected but not found"
                                ELSE "'||' expected but not found", l)
         ELSE LexOk(TwoCharacterOperators[c],
                    read_next_char(read_next_char(l)))
    ELSE LexOk(<<c>>, read_next_char(l))

\* the sequence read by get_next_token (l.ch is Some)
read_sequence(l) ==
    LET c == l.ch[1] IN
    IF is_digit(c) THEN read_number(l)
    ELSE IF is_identifier(c) THEN read_identifier(l)
    ELSE IF c = "\"" THEN read_string(l)
    ELSE IF c = "'" THEN read_character(l)
    ELSE read_operator(l)

\* the arm Token::Float(_) of get_next_token: the sequence is parsed again
lexed_float(f, l) ==
    IF f.ok THEN LexOk(TokFloat(f.val), l) ELSE LexErr(f.err, l)
lexed_int(i, l) ==
    IF i.ok THEN LexOk(TokInt(i.val), l) ELSE LexErr(i.err, l)

get_next_token(l0) ==
    LET l == eat_whitespace(l0) IN
    IF l.ch = None
    THEN LexOk(Tok("Eof"), l)
    ELSE
    LET s == read_sequence(l) IN
    IF s.res # "Ok"
    THEN s
    ELSE
    LET sequence == s.val
        t == lookup_token(sequence)
    IN
    IF t.res = "Panic" THEN LexPanic(s.lexer)
    ELSE IF t.res = "Err" THEN LexErr(t.err, s.lexer)
    ELSE IF t.res = "None"
    THEN LexErr("not yet implemented or a lexer bug", s.lexer)
    ELSE IF t.token.type = "Ident"
    THEN LexOk(TokIdent(sequence), s.lexer)
    ELSE IF t.token.type = "Float"
    THEN IF Contains(sequence, ".")
         THEN lexed_float(parse_f64(sequence), s.lexer)
         ELSE lexed_int(parse_i32(sequence), s.lexer)
    ELSE IF t.token.type = "String"
    THEN LexOk(TokString(SubSeq(sequence, 2, Len(sequence) - 1)), s.lexer)
    ELSE IF t.token.type = "Char"
    THEN LexOk(TokChar(sequence[2]), s.lexer)
    ELSE LexOk(t.token, s.lexer)

(***************************************************************************)
(* parser.rs                                                               *)
(*                                                                         *)
(* A Parser is the record of its queue of tokens, together with a log of   *)
(* what it did.  A function taking &mut self returns the parser it leaves  *)
(* behind next to its result: [res |-> "Ok", val |-> v, parser |-> p],     *)
(* [res |-> "Err", err |-> e, parser |-> p] or, where the function panics  *)
(* (unreachable!(), unwrap() of an Err, a failing assert_eq!),             *)
(* [res |-> "Panic", parser |-> p].  The backquotes of the messages are    *)
(* written as apostrophes.                                                 *)
(*                                                                         *)
(* The events of the log:                                                  *)
(*   [ev |-> "pop", token, before]    pop_front() of get_next removed      *)
(*                                    token from a queue of before tokens  *)
(*   [ev |-> "read", before]          get_next or peek_next read the front *)
(*                                    of a queue of before tokens          *)
(*   [ev |-> "begin", what, before]   parse_expression (what =             *)
(*       "expression") was entered, or an iteration of the loop of         *)
(*       parse_block_expression (what = "block") or of parse (what =       *)
(*       "root") began, with before tokens in the queue                    *)
(*   [ev |-> "end", what, before, after]   parse_expression (what =        *)
(*       "expression") or parse_statement (what = "statement") returned    *)
(*       Ok, having been entered with before tokens and leaving after      *)
(***************************************************************************)
Precedence_Lowest == 0
Precedence_Or == 1
Precedence_And == 2
Precedence_Cmp == 3
Precedence_Sum == 4
Precedence_Product == 5
Precedence_Unary == 6
Precedence_Call == 7

assign_as_operator(t) ==
    CASE t.type \in {"Or", "Assign"} -> Precedence_Or
      [] t.type = "And" -> Precedence_And
      [] t.type \in {"Eq", "NotEq", "Lt", "Gt", "LtEq", "GtEq"} -> Precedence_Cmp
      [] t.type \in {"Plus", "Minus"} -> Precedence_Sum
      [] t.type \in {"Asterisk", "Slash", "Percent", "Power"} ->
             Precedence_Product
      [] t.type \in {"Lparen", "Lbracket"} -> Precedence_Call
      [] OTHER -> Precedence_Lowest

lookup_precedence(t) ==
    CASE t.type = "Or" -> Precedence_Or
      [] t.type = "And" -> Precedence_And
      [] t.type \in {"Eq", "NotEq", "Lt", "Gt", "LtEq", "GtEq"} -> Precedence_Cmp
      [] t.type \in {"Plus", "Minus"} -> Precedence_Sum
      [] t.type \in {"Asterisk", "Slash", "Percent", "Power"} ->
             Precedence_Product
      [] t.type \in {"Lparen", "Lbracket"} -> Precedence_Call
      [] OTHER -> Precedence_Lowest

ParseError_Eof == [kind |-> "Eof"]
ParseError_Error(s) == [kind |-> "Error", msg |-> s]

POk(v, p) == [res |-> "Ok", val |-> v, parser |-> p]
PErr(e, p) == [res |-> "Err", err |-> e, parser |-> p]
PPanic(p) == [res |-> "Panic", parser |-> p]

\* r?: the Ok value goes on, an Err (or a panic) is returned as it is
Q(r, K(_)) == IF r.res = "Ok" THEN K(r) ELSE r

Logged(p, e) == [p EXCEPT !.log = Append(@, e)]

\* a Parser with the tokens v
Parser(v) == [tokens |-> v, log |-> <<>>]

\* Parser::new(v): assert!(!tokens.is_empty()) and
\* assert_eq!(tokens.last().unwrap(), &Token::Eof)
Parser_new(v) ==
    IF v = <<>> \/ v[Len(v)].type # "Eof" THEN PPanic(Parser(v))
    ELSE [res |-> "Ok", parser |-> Parser(v)]

get_next(p) ==
    LET p0 == Logged(p, [ev |-> "read", before |-> Len(p.tokens)]) IN
    IF p.tokens = <<>>
    THEN PPanic(p0)
    ELSE LET t == Head(p.tokens)
             p1 == [tokens |-> Tail(p.tokens),
                    log |-> Append(p0.log, [ev |-> "pop", token |-> t,
                                            before |-> Len(p.tokens)])]
         IN IF t.type = "Eof" THEN PErr(ParseError_Eof, p1) ELSE POk(t, p1)

peek_next(p) ==
    LET p0 == Logged(p, [ev |-> "read", before |-> Len(p.tokens)]) IN
    IF p.tokens = <<>>
    THEN PPanic(p0)
    ELSE IF Head(p.tokens).type = "Eof"
    THEN PErr(ParseError_Eof, p0)
    ELSE POk(Head(p.tokens), p0)

expect_next_advancing(p, type) ==
    The({IF next.res = "Panic" THEN next
    ELSE IF next.res = "Ok" /\ next.val.type = type
    THEN POk(TRUE, get_next(next.parser).parser)
    ELSE POk(FALSE, next.parser)
        : next \in {peek_next(p)}})

\* mem::discriminant compares the variants, not their payloads; next.unwrap()
\* is evaluated only when next.is_ok()
expect_next(p, type) ==
    The({IF next.res = "Panic" THEN next
    ELSE POk(next.res = "Ok" /\ next.val.type = type, next.parser)
        : next \in {peek_next(p)}})

\* the characters of a String, joined
RECURSIVE Concat(_)
Concat(s) == IF s = <<>> THEN "" ELSE s[1] \o Concat(Tail(s))

\* the decimal digits of a natural ("" for 0)
RECURSIVE bn_to_decimal(_)
bn_to_decimal(n) ==
    IF n = <<>> THEN ""
    ELSE bn_to_decimal(bn_divmod_small(n, 10).q)
         \o ToString(bn_divmod_small(n, 10).r)

\* the value of a scalar written as "U+3042"
HexDigitValue(d) ==
    (CHOOSE i \in 1..16 : SubSeq("0123456789ABCDEF", i, i) = d) - 1

RECURSIVE HexValue(_)
HexValue(s) ==
    IF s = "" THEN 0
    ELSE HexValue(SubSeq(s, 1, Len(s) - 1)) * 16
         + HexDigitValue(SubSeq(s, Len(s), Len(s)))

ScalarValue(c) == HexValue(SubSeq(c, 3, Len(c)))

\* {:x} of a natural
RECURSIVE LowerHex(_)
LowerHex(n) ==
    (IF n < 16 THEN "" ELSE LowerHex(n \div 16))
    \o SubSeq("0123456789abcdef", (n % 16) + 1, (n % 16) + 1)

\* the scalars from U+0080 on that char::escape_debug writes as \u{..}:
\* those with the property Grapheme_Extend and those that are not
\* printable (the general categories Cc, Cf, Co, Cn, Zl, Zp and Zs), as
\* ranges of scalar values; the tables are those of Unicode 17.0
EscapedRanges ==
    <<<<\h80, \hA0>>, <<\hAD, \hAD>>, <<\h300, \h36F>>, <<\h378, \h379>>,
      <<\h380, \h383>>, <<\h38B, \h38B>>, <<\h38D, \h38D>>, <<\h3A2, \h3A2>>,
      <<\h483, \h489>>, <<\h530, \h530>>, <<\h557, \h558>>, <<\h58B, \h58C>>,
      <<\h590, \h5BD>>, <<\h5BF, \h5BF>>, <<\h5C1, \h5C2>>, <<\h5C4, \h5C5>>,
      <<\h5C7, \h5CF>>, <<\h5EB, \h5EE>>, <<\h5F5, \h605>>, <<\h610, \h61A>>,
      <<\h61C, \h61C>>, <<\h64B, \h65F>>, <<\h670, \h670>>, <<\h6D6, \h6DD>>,
      <<\h6DF, \h6E4>>, <<\h6E7, \h6E8>>, <<\h6EA, \h6ED>>, <<\h70E, \h70F>>,
      <<\h711, \h711>>, <<\h730, \h74C>>, <<\h7A6, \h7B0>>, <<\h7B2, \h7BF>>,
      <<\h7EB, \h7F3>>, <<\h7FB, \h7FD>>, <<\h816, \h819>>, <<\h81B, \h823>>,
      <<\h825, \h827>>, <<\h829, \h82F>>, <<\h83F, \h83F>>, <<\h859, \h85D>>,
      <<\h85F, \h85F>>, <<\h86B, \h86F>>, <<\h890, \h89F>>, <<\h8CA, \h902>>,
      <<\h93A, \h93A>>, <<\h93C, \h93C>>, <<\h941, \h948>>, <<\h94D, \h94D>>,
      <<\h951, \h957>>, <<\h962, \h963>>, <<\h981, \h981>>, <<\h984, \h984>>,
      <<\h98D, \h98E>>, <<\h991, \h992>>, <<\h9A9, \h9A9>>, <<\h9B1, \h9B1>>,
      <<\h9B3, \h9B5>>, <<\h9BA, \h9BC>>, <<\h9BE, \h9BE>>, <<\h9C1, \h9C6>>,
      <<\h9C9, \h9CA>>, <<\h9CD, \h9CD>>, <<\h9CF, \h9DB>>, <<\h9DE, \h9DE>>,
      <<\h9E2, \h9E5>>, <<\h9FE, \hA02>>, <<\hA04, \hA04>>, <<\hA0B, \hA0E>>,
      <<\hA11, \hA12>>, <<\hA29, \hA29>>, <<\hA31, \hA31>>, <<\hA34, \hA34>>,
      <<\hA37, \hA37>>, <<\hA3A, \hA3D>>, <<\hA41, \hA58>>, <<\hA5D, \hA5D>>,
      <<\hA5F, \hA65>>, <<\hA70, \hA71>>, <<\hA75, \hA75>>, <<\hA77, \hA82>>,
      <<\hA84, \hA84>>, <<\hA8E, \hA8E>>, <<\hA92, \hA92>>, <<\hAA9, \hAA9>>,
      <<\hAB1, \hAB1>>, <<\hAB4, \hAB4>>, <<\hABA, \hABC>>, <<\hAC1, \hAC8>>,
      <<\hACA, \hACA>>, <<\hACD, \hACF>>, <<\hAD1, \hADF>>, <<\hAE2, \hAE5>>,
      <<\hAF2, \hAF8>>, <<\hAFA, \hB01>>, <<\hB04, \hB04>>, <<\hB0D, \hB0E>>,
      <<\hB11, \hB12>>, <<\hB29, \hB29>>, <<\hB31, \hB31>>, <<\hB34, \hB34>>,
      <<\hB3A, \hB3C>>, <<\hB3E, \hB3F>>, <<\hB41, \hB46>>, <<\hB49, \hB4A>>,
      <<\hB4D, \hB5B>>, <<\hB5E, \hB5E>>, <<\hB62, \hB65>>, <<\hB78, \hB82>>,
      <<\hB84, \hB84>>, <<\hB8B, \hB8D>>, <<\hB91, \hB91>>, <<\hB96, \hB98>>,
      <<\hB9B, \hB9B>>, <<\hB9D, \hB9D>>, <<\hBA0, \hBA2>>, <<\hBA5, \hBA7>>,
      <<\hBAB, \hBAD>>, <<\hBBA, \hBBE>>, <<\hBC0, \hBC0>>, <<\hBC3, \hBC5>>,
      <<\hBC9, \hBC9>>, <<\hBCD, \hBCF>>, <<\hBD1, \hBE5>>, <<\hBFB, \hC00>>,
      <<\hC04, \hC04>>, <<\hC0D, \hC0D>>, <<\hC11, \hC11>>, <<\hC29, \hC29>>,
      <<\hC3A, \hC3C>>, <<\hC3E, \hC40>>, <<\hC45, \hC57>>, <<\hC5B, \hC5B>>,
      <<\hC5E, \hC5F>>, <<\hC62, \hC65>>, <<\hC70, \hC76>>, <<\hC81, \hC81>>,
      <<\hC8D, \hC8D>>, <<\hC91, \hC91>>, <<\hCA9, \hCA9>>, <<\hCB4, \hCB4>>,
      <<\hCBA, \hCBC>>, <<\hCBF, \hCC0>>, <<\hCC2, \hCC2>>, <<\hCC5, \hCDB>>,
      <<\hCDF, \hCDF>>, <<\hCE2, \hCE5>>, <<\hCF0, \hCF0>>, <<\hCF4, \hD01>>,
      <<\hD0D, \hD0D>>, <<\hD11, \hD11>>, <<\hD3B, \hD3C>>, <<\hD3E, \hD3E>>,
      <<\hD41, \hD45>>, <<\hD49, \hD49>>, <<\hD4D, \hD4D>>, <<\hD50, \hD53>>,
      <<\hD57, \hD57>>, <<\hD62, \hD65>>, <<\hD80, \hD81>>, <<\hD84, \hD84>>,
      <<\hD97, \hD99>>, <<\hDB2, \hDB2>>, <<\hDBC, \hDBC>>, <<\hDBE, \hDBF>>,
      <<\hDC7, \hDCF>>, <<\hDD2, \hDD7>>, <<\hDDF, \hDE5>>, <<\hDF0, \hDF1>>,
      <<\hDF5, \hE00>>, <<\hE31, \hE31>>, <<\hE34, \hE3E>>, <<\hE47, \hE4E>>,
      <<\hE5C, \hE80>>, <<\hE83, \hE83>>, <<\hE85, \hE85>>, <<\hE8B, \hE8B>>,
      <<\hEA4, \hEA4>>, <<\hEA6, \hEA6>>, <<\hEB1, \hEB1>>, <<\hEB4, \hEBC>>,
      <<\hEBE, \hEBF>>, <<\hEC5, \hEC5>>, <<\hEC7, \hECF>>, <<\hEDA, \hEDB>>,
      <<\hEE0, \hEFF>>, <<\hF18, \hF19>>, <<\hF35, \hF35>>, <<\hF37, \hF37>>,
      <<\hF39, \hF39>>, <<\hF48, \hF48>>, <<\hF6D, \hF7E>>, <<\hF80, \hF84>>,
      <<\hF86, \hF87>>, <<\hF8D, \hFBD>>, <<\hFC6, \hFC6>>, <<\hFCD, \hFCD>>,
      <<\hFDB, \hFFF>>, <<\h102D, \h1030>>, <<\h1032, \h1037>>,
      <<\h1039, \h103A>>, <<\h103D, \h103E>>, <<\h1058, \h1059>>,
      <<\h105E, \h1060>>, <<\h1071, \h1074>>, <<\h1082, \h1082>>,
      <<\h1085, \h1086>>, <<\h108D, \h108D>>, <<\h109D, \h109D>>,
      <<\h10C6, \h10C6>>, <<\h10C8, \h10CC>>, <<\h10CE, \h10CF>>,
      <<\h1249, \h1249>>, <<\h124E, \h124F>>, <<\h1257, \h1257>>,
      <<\h1259, \h1259>>, <<\h125E, \h125F>>, <<\h1289, \h1289>>,
      <<\h128E, \h128F>>, <<\h12B1, \h12B1>>, <<\h12B6, \h12B7>>,
      <<\h12BF, \h12BF>>, <<\h12C1, \h12C1>>, <<\h12C6, \h12C7>>,
      <<\h12D7, \h12D7>>, <<\h1311, \h1311>>, <<\h1316, \h1317>>,
      <<\h135B, \h135F>>, <<\h137D, \h137F>>, <<\h139A, \h139F>>,
      <<\h13F6, \h13F7>>, <<\h13FE, \h13FF>>, <<\h1680, \h1680>>,
      <<\h169D, \h169F>>, <<\h16F9, \h16FF>>, <<\h1712, \h171E>>,
      <<\h1732, \h1734>>, <<\h1737, \h173F>>, <<\h1752, \h175F>>,
      <<\h176D, \h176D>>, <<\h1771, \h177F>>, <<\h17B4, \h17B5>>,
      <<\h17B7, \h17BD>>, <<\h17C6, \h17C6>>, <<\h17C9, \h17D3>>,
      <<\h17DD, \h17DF>>, <<\h17EA, \h17EF>>, <<\h17FA, \h17FF>>,
      <<\h180B, \h180F>>, <<\h181A, \h181F>>, <<\h1879, \h187F>>,
      <<\h1885, \h1886>>, <<\h18A9, \h18A9>>, <<\h18AB, \h18AF>>,
      <<\h18F6, \h18FF>>, <<\h191F, \h1922>>, <<\h1927, \h1928>>,
      <<\h192C, \h192F>>, <<\h1932, \h1932>>, <<\h1939, \h193F>>,
      <<\h1941, \h1943>>, <<\h196E, \h196F>>, <<\h1975, \h197F>>,
      <<\h19AC, \h19AF>>, <<\h19CA, \h19CF>>, <<\h19DB, \h19DD>>,
      <<\h1A17, \h1A18>>, <<\h1A1B, \h1A1D>>, <<\h1A56, \h1A56>>,
      <<\h1A58, \h1A60>>, <<\h1A62, \h1A62>>, <<\h1A65, \h1A6C>>,
      <<\h1A73, \h1A7F>>, <<\h1A8A, \h1A8F>>, <<\h1A9A, \h1A9F>>,
      <<\h1AAE, \h1B03>>, <<\h1B34, \h1B3D>>, <<\h1B42, \h1B44>>,
      <<\h1B4D, \h1B4D>>, <<\h1B6B, \h1B73>>, <<\h1B80, \h1B81>>,
      <<\h1BA2, \h1BA5>>, <<\h1BA8, \h1BAD>>, <<\h1BE6, \h1BE6>>,
      <<\h1BE8, \h1BE9>>, <<\h1BED, \h1BED>>, <<\h1BEF, \h1BFB>>,
      <<\h1C2C, \h1C33>>, <<\h1C36, \h1C3A>>, <<\h1C4A, \h1C4C>>,
      <<\h1C8B, \h1C8F>>, <<\h1CBB, \h1CBC>>, <<\h1CC8, \h1CD2>>,
      <<\h1CD4, \h1CE0>>, <<\h1CE2, \h1CE8>>, <<\h1CED, \h1CED>>,
      <<\h1CF4, \h1CF4>>, <<\h1CF8, \h1CF9>>, <<\h1CFB, \h1CFF>>,
      <<\h1DC0, \h1DFF>>, <<\h1F16, \h1F17>>, <<\h1F1E, \h1F1F>>,
      <<\h1F46, \h1F47>>, <<\h1F4E, \h1F4F>>, <<\h1F58, \h1F58>>,
      <<\h1F5A, \h1F5A>>, <<\h1F5C, \h1F5C>>, <<\h1F5E, \h1F5E>>,
      <<\h1F7E, \h1F7F>>, <<\h1FB5, \h1FB5>>, <<\h1FC5, \h1FC5>>,
      <<\h1FD4, \h1FD5>>, <<\h1FDC, \h1FDC>>, <<\h1FF0, \h1FF1>>,
      <<\h1FF5, \h1FF5>>, <<\h1FFF, \h200F>>, <<\h2028, \h202F>>,
      <<\h205F, \h206F>>, <<\h2072, \h2073>>, <<\h208F, \h208F>>,
      <<\h209D, \h209F>>, <<\h20C2, \h20FF>>, <<\h218C, \h218F>>,
      <<\h242A, \h243F>>, <<\h244B, \h245F>>, <<\h2B74, \h2B75>>,
      <<\h2CEF, \h2CF1>>, <<\h2CF4, \h2CF8>>, <<\h2D26, \h2D26>>,
      <<\h2D28, \h2D2C>>, <<\h2D2E, \h2D2F>>, <<\h2D68, \h2D6E>>,
      <<\h2D71, \h2D7F>>, <<\h2D97, \h2D9F>>, <<\h2DA7, \h2DA7>>,
      <<\h2DAF, \h2DAF>>, <<\h2DB7, \h2DB7>>, <<\h2DBF, \h2DBF>>,
      <<\h2DC7, \h2DC7>>, <<\h2DCF, \h2DCF>>, <<\h2DD7, \h2DD7>>,
      <<\h2DDF, \h2DFF>>, <<\h2E5E, \h2E7F>>, <<\h2E9A, \h2E9A>>,
      <<\h2EF4, \h2EFF>>, <<\h2FD6, \h2FEF>>, <<\h3000, \h3000>>,
      <<\h302A, \h302F>>, <<\h3040, \h3040>>, <<\h3097, \h309A>>,
      <<\h3100, \h3104>>, <<\h3130, \h3130>>, <<\h318F, \h318F>>,
      <<\h31E6, \h31EE>>, <<\h321F, \h321F>>, <<\hA48D, \hA48F>>,
      <<\hA4C7, \hA4CF>>, <<\hA62C, \hA63F>>, <<\hA66F, \hA672>>,
      <<\hA674, \hA67D>>, <<\hA69E, \hA69F>>, <<\hA6F0, \hA6F1>>,
      <<\hA6F8, \hA6FF>>, <<\hA7DD, \hA7F0>>, <<\hA802, \hA802>>,
      <<\hA806, \hA806>>, <<\hA80B, \hA80B>>, <<\hA825, \hA826>>,
      <<\hA82C, \hA82F>>, <<\hA83A, \hA83F>>, <<\hA878, \hA87F>>,
      <<\hA8C4, \hA8CD>>, <<\hA8DA, \hA8F1>>, <<\hA8FF, \hA8FF>>,
      <<\hA926, \hA92D>>, <<\hA947, \hA951>>, <<\hA953, \hA95E>>,
      <<\hA97D, \hA982>>, <<\hA9B3, \hA9B3>>, <<\hA9B6, \hA9B9>>,
      <<\hA9BC, \hA9BD>>, <<\hA9C0, \hA9C0>>, <<\hA9CE, \hA9CE>>,
      <<\hA9DA, \hA9DD>>, <<\hA9E5, \hA9E5>>, <<\hA9FF, \hA9FF>>,
      <<\hAA29, \hAA2E>>, <<\hAA31, \hAA32>>, <<\hAA35, \hAA3F>>,
      <<\hAA43, \hAA43>>, <<\hAA4C, \hAA4C>>, <<\hAA4E, \hAA4F>>,
      <<\hAA5A, \hAA5B>>, <<\hAA7C, \hAA7C>>, <<\hAAB0, \hAAB0>>,
      <<\hAAB2, \hAAB4>>, <<\hAAB7, \hAAB8>>, <<\hAABE, \hAABF>>,
      <<\hAAC1, \hAAC1>>, <<\hAAC3, \hAADA>>, <<\hAAEC, \hAAED>>,
      <<\hAAF6, \hAB00>>, <<\hAB07, \hAB08>>, <<\hAB0F, \hAB10>>,
      <<\hAB17, \hAB1F>>, <<\hAB27, \hAB27>>, <<\hAB2F, \hAB2F>>,
      <<\hAB6C, \hAB6F>>, <<\hABE5, \hABE5>>, <<\hABE8, \hABE8>>,
      <<\hABED, \hABEF>>, <<\hABFA, \hABFF>>, <<\hD7A4, \hD7AF>>,
      <<\hD7C7, \hD7CA>>, <<\hD7FC, \hF8FF>>, <<\hFA6E, \hFA6F>>,
      <<\hFADA, \hFAFF>>, <<\hFB07, \hFB12>>, <<\hFB18, \hFB1C>>,
      <<\hFB1E, \hFB1E>>, <<\hFB37, \hFB37>>, <<\hFB3D, \hFB3D>>,
      <<\hFB3F, \hFB3F>>, <<\hFB42, \hFB42>>, <<\hFB45, \hFB45>>,
      <<\hFDD0, \hFDEF>>, <<\hFE00, \hFE0F>>, <<\hFE1A, \hFE2F>>,
      <<\hFE53, \hFE53>>, <<\hFE67, \hFE67>>, <<\hFE6C, \hFE6F>>,
      <<\hFE75, \hFE75>>, <<\hFEFD, \hFF00>>, <<\hFF9E, \hFF9F>>,
      <<\hFFBF, \hFFC1>>, <<\hFFC8, \hFFC9>>, <<\hFFD0, \hFFD1>>,
      <<\hFFD8, \hFFD9>>, <<\hFFDD, \hFFDF>>, <<\hFFE7, \hFFE7>>,
      <<\hFFEF, \hFFFB>>, <<\hFFFE, \hFFFF>>, <<\h1000C, \h1000C>>,
      <<\h10027, \h10027>>, <<\h1003B, \h1003B>>, <<\h1003E, \h1003E>>,
      <<\h1004E, \h1004F>>, <<\h1005E, \h1007F>>, <<\h100FB, \h100FF>>,
      <<\h10103, \h10106>>, <<\h10134, \h10136>>, <<\h1018F, \h1018F>>,
      <<\h1019D, \h1019F>>, <<\h101A1, \h101CF>>, <<\h101FD, \h1027F>>,
      <<\h1029D, \h1029F>>, <<\h102D1, \h102E0>>, <<\h102FC, \h102FF>>,
      <<\h10324, \h1032C>>, <<\h1034B, \h1034F>>, <<\h10376, \h1037F>>,
      <<\h1039E, \h1039E>>, <<\h103C4, \h103C7>>, <<\h103D6, \h103FF>>,
      <<\h1049E, \h1049F>>, <<\h104AA, \h104AF>>, <<\h104D4, \h104D7>>,
      <<\h104FC, \h104FF>>, <<\h10528, \h1052F>>, <<\h10564, \h1056E>>,
      <<\h1057B, \h1057B>>, <<\h1058B, \h1058B>>, <<\h10593, \h10593>>,
      <<\h10596, \h10596>>, <<\h105A2, \h105A2>>, <<\h105B2, \h105B2>>,
      <<\h105BA, \h105BA>>, <<\h105BD, \h105BF>>, <<\h105F4, \h105FF>>,
      <<\h10737, \h1073F>>, <<\h10756, \h1075F>>, <<\h10768, \h1077F>>,
      <<\h10786, \h10786>>, <<\h107B1, \h107B1>>, <<\h107BB, \h107FF>>,
      <<\h10806, \h10807>>, <<\h10809, \h10809>>, <<\h10836, \h10836>>,
      <<\h10839, \h1083B>>, <<\h1083D, \h1083E>>, <<\h10856, \h10856>>,
      <<\h1089F, \h108A6>>, <<\h108B0, \h108DF>>, <<\h108F3, \h108F3>>,
      <<\h108F6, \h108FA>>, <<\h1091C, \h1091E>>, <<\h1093A, \h1093E>>,
      <<\h1095A, \h1097F>>, <<\h109B8, \h109BB>>, <<\h109D0, \h109D1>>,
      <<\h10A01, \h10A0F>>, <<\h10A14, \h10A14>>, <<\h10A18, \h10A18>>,
      <<\h10A36, \h10A3F>>, <<\h10A49, \h10A4F>>, <<\h10A59, \h10A5F>>,
      <<\h10AA0, \h10ABF>>, <<\h10AE5, \h10AEA>>, <<\h10AF7, \h10AFF>>,
      <<\h10B36, \h10B38>>, <<\h10B56, \h10B57>>, <<\h10B73, \h10B77>>,
      <<\h10B92, \h10B98>>, <<\h10B9D, \h10BA8>>, <<\h10BB0, \h10BFF>>,
      <<\h10C49, \h10C7F>>, <<\h10CB3, \h10CBF>>, <<\h10CF3, \h10CF9>>,
      <<\h10D24, \h10D2F>>, <<\h10D3A, \h10D3F>>, <<\h10D66, \h10D6D>>,
      <<\h10D86, \h10D8D>>, <<\h10D90, \h10E5F>>, <<\h10E7F, \h10E7F>>,
      <<\h10EAA, \h10EAC>>, <<\h10EAE, \h10EAF>>, <<\h10EB2, \h10EC1>>,
      <<\h10EC8, \h10ECF>>, <<\h10ED9, \h10EFF>>, <<\h10F28, \h10F2F>>,
      <<\h10F46, \h10F50>>, <<\h10F5A, \h10F6F>>, <<\h10F82, \h10F85>>,
      <<\h10F8A, \h10FAF>>, <<\h10FCC, \h10FDF>>, <<\h10FF7, \h10FFF>>,
      <<\h11001, \h11001>>, <<\h11038, \h11046>>, <<\h1104E, \h11051>>,
      <<\h11070, \h11070>>, <<\h11073, \h11074>>, <<\h11076, \h11081>>,
      <<\h110B3, \h110B6>>, <<\h110B9, \h110BA>>, <<\h110BD, \h110BD>>,
      <<\h110C2, \h110CF>>, <<\h110E9, \h110EF>>, <<\h110FA, \h11102>>,
      <<\h11127, \h1112B>>, <<\h1112D, \h11135>>, <<\h11148, \h1114F>>,
      <<\h11173, \h11173>>, <<\h11177, \h11181>>, <<\h111B6, \h111BE>>,
      <<\h111C0, \h111C0>>, <<\h111C9, \h111CC>>, <<\h111CF, \h111CF>>,
      <<\h111E0, \h111E0>>, <<\h111F5, \h111FF>>, <<\h11212, \h11212>>,
      <<\h1122F, \h11231>>, <<\h11234, \h11237>>, <<\h1123E, \h1123E>>,
      <<\h11241, \h1127F>>, <<\h11287, \h11287>>, <<\h11289, \h11289>>,
      <<\h1128E, \h1128E>>, <<\h1129E, \h1129E>>, <<\h112AA, \h112AF>>,
      <<\h112DF, \h112DF>>, <<\h112E3, \h112EF>>, <<\h112FA, \h11301>>,
      <<\h11304, \h11304>>, <<\h1130D, \h1130E>>, <<\h11311, \h11312>>,
      <<\h11329, \h11329>>, <<\h11331, \h11331>>, <<\h11334, \h11334>>,
      <<\h1133A, \h1133C>>, <<\h1133E, \h1133E>>, <<\h11340, \h11340>>,
      <<\h11345, \h11346>>, <<\h11349, \h1134A>>, <<\h1134D, \h1134F>>,
      <<\h11351, \h1135C>>, <<\h11364, \h1137F>>, <<\h1138A, \h1138A>>,
      <<\h1138C, \h1138D>>, <<\h1138F, \h1138F>>, <<\h113B6, \h113B6>>,
      <<\h113B8, \h113B8>>, <<\h113BB, \h113C9>>, <<\h113CB, \h113CB>>,
      <<\h113CE, \h113D0>>, <<\h113D2, \h113D2>>, <<\h113D6, \h113D6>>,
      <<\h113D9, \h113FF>>, <<\h11438, \h1143F>>, <<\h11442, \h11444>>,
      <<\h11446, \h11446>>, <<\h1145C, \h1145C>>, <<\h1145E, \h1145E>>,
      <<\h11462, \h1147F>>, <<\h114B0, \h114B0>>, <<\h114B3, \h114B8>>,
      <<\h114BA, \h114BA>>, <<\h114BD, \h114BD>>, <<\h114BF, \h114C0>>,
      <<\h114C2, \h114C3>>, <<\h114C8, \h114CF>>, <<\h114DA, \h1157F>>,
      <<\h115AF, \h115AF>>, <<\h115B2, \h115B7>>, <<\h115BC, \h115BD>>,
      <<\h115BF, \h115C0>>, <<\h115DC, \h115FF>>, <<\h11633, \h1163A>>,
      <<\h1163D, \h1163D>>, <<\h1163F, \h11640>>, <<\h11645, \h1164F>>,
      <<\h1165A, \h1165F>>, <<\h1166D, \h1167F>>, <<\h116AB, \h116AB>>,
      <<\h116AD, \h116AD>>, <<\h116B0, \h116B7>>, <<\h116BA, \h116BF>>,
      <<\h116CA, \h116CF>>, <<\h116E4, \h116FF>>, <<\h1171B, \h1171D>>,
      <<\h1171F, \h1171F>>, <<\h11722, \h11725>>, <<\h11727, \h1172F>>,
      <<\h11747, \h117FF>>, <<\h1182F, \h11837>>, <<\h11839, \h1183A>>,
      <<\h1183C, \h1189F>>, <<\h118F3, \h118FE>>, <<\h11907, \h11908>>,
      <<\h1190A, \h1190B>>, <<\h11914, \h11914>>, <<\h11917, \h11917>>,
      <<\h11930, \h11930>>, <<\h11936, \h11936>>, <<\h11939, \h1193E>>,
      <<\h11943, \h11943>>, <<\h11947, \h1194F>>, <<\h1195A, \h1199F>>,
      <<\h119A8, \h119A9>>, <<\h119D4, \h119DB>>, <<\h119E0, \h119E0>>,
      <<\h119E5, \h119FF>>, <<\h11A01, \h11A0A>>, <<\h11A33, \h11A38>>,
      <<\h11A3B, \h11A3E>>, <<\h11A47, \h11A4F>>, <<\h11A51, \h11A56>>,
      <<\h11A59, \h11A5B>>, <<\h11A8A, \h11A96>>, <<\h11A98, \h11A99>>,
      <<\h11AA3, \h11AAF>>, <<\h11AF9, \h11AFF>>, <<\h11B0A, \h11B60>>,
      <<\h11B62, \h11B64>>, <<\h11B66, \h11B66>>, <<\h11B68, \h11BBF>>,
      <<\h11BE2, \h11BEF>>, <<\h11BFA, \h11BFF>>, <<\h11C09, \h11C09>>,
      <<\h11C30, \h11C3D>>, <<\h11C3F, \h11C3F>>, <<\h11C46, \h11C4F>>,
      <<\h11C6D, \h11C6F>>, <<\h11C90, \h11CA8>>, <<\h11CAA, \h11CB0>>,
      <<\h11CB2, \h11CB3>>, <<\h11CB5, \h11CFF>>, <<\h11D07, \h11D07>>,
      <<\h11D0A, \h11D0A>>, <<\h11D31, \h11D45>>, <<\h11D47, \h11D4F>>,
      <<\h11D5A, \h11D5F>>, <<\h11D66, \h11D66>>, <<\h11D69, \h11D69>>,
      <<\h11D8F, \h11D92>>, <<\h11D95, \h11D95>>, <<\h11D97, \h11D97>>,
      <<\h11D99, \h11D9F>>, <<\h11DAA, \h11DAF>>, <<\h11DDC, \h11DDF>>,
      <<\h11DEA, \h11EDF>>, <<\h11EF3, \h11EF4>>, <<\h11EF9, \h11F01>>,
      <<\h11F11, \h11F11>>, <<\h11F36, \h11F3D>>, <<\h11F40, \h11F42>>,
      <<\h11F5A, \h11FAF>>, <<\h11FB1, \h11FBF>>, <<\h11FF2, \h11FFE>>,
      <<\h1239A, \h123FF>>, <<\h1246F, \h1246F>>, <<\h12475, \h1247F>>,
      <<\h12544, \h12F8F>>, <<\h12FF3, \h12FFF>>, <<\h13430, \h13440>>,
      <<\h13447, \h1345F>>, <<\h143FB, \h143FF>>, <<\h14647, \h160FF>>,
      <<\h1611E, \h16129>>, <<\h1612D, \h1612F>>, <<\h1613A, \h167FF>>,
      <<\h16A39, \h16A3F>>, <<\h16A5F, \h16A5F>>, <<\h16A6A, \h16A6D>>,
      <<\h16ABF, \h16ABF>>, <<\h16ACA, \h16ACF>>, <<\h16AEE, \h16AF4>>,
      <<\h16AF6, \h16AFF>>, <<\h16B30, \h16B36>>, <<\h16B46, \h16B4F>>,
      <<\h16B5A, \h16B5A>>, <<\h16B62, \h16B62>>, <<\h16B78, \h16B7C>>,
      <<\h16B90, \h16D3F>>, <<\h16D7A, \h16E3F>>, <<\h16E9B, \h16E9F>>,
      <<\h16EB9, \h16EBA>>, <<\h16ED4, \h16EFF>>, <<\h16F4B, \h16F4F>>,
      <<\h16F88, \h16F92>>, <<\h16FA0, \h16FDF>>, <<\h16FE4, \h16FF1>>,
      <<\h16FF7, \h16FFF>>, <<\h18CD6, \h18CFE>>, <<\h18D1F, \h18D7F>>,
      <<\h18DF3, \h1AFEF>>, <<\h1AFF4, \h1AFF4>>, <<\h1AFFC, \h1AFFC>>,
      <<\h1AFFF, \h1AFFF>>, <<\h1B123, \h1B131>>, <<\h1B133, \h1B14F>>,
      <<\h1B153, \h1B154>>, <<\h1B156, \h1B163>>, <<\h1B168, \h1B16F>>,
      <<\h1B2FC, \h1BBFF>>, <<\h1BC6B, \h1BC6F>>, <<\h1BC7D, \h1BC7F>>,
      <<\h1BC89, \h1BC8F>>, <<\h1BC9A, \h1BC9B>>, <<\h1BC9D, \h1BC9E>>,
      <<\h1BCA0, \h1CBFF>>, <<\h1CCFD, \h1CCFF>>, <<\h1CEB4, \h1CEB9>>,
      <<\h1CED1, \h1CEDF>>, <<\h1CEF1, \h1CF4F>>, <<\h1CFC4, \h1CFFF>>,
      <<\h1D0F6, \h1D0FF>>, <<\h1D127, \h1D128>>, <<\h1D165, \h1D169>>,
      <<\h1D16D, \h1D182>>, <<\h1D185, \h1D18B>>, <<\h1D1AA, \h1D1AD>>,
      <<\h1D1EB, \h1D1FF>>, <<\h1D242, \h1D244>>, <<\h1D246, \h1D2BF>>,
      <<\h1D2D4, \h1D2DF>>, <<\h1D2F4, \h1D2FF>>, <<\h1D357, \h1D35F>>,
      <<\h1D379, \h1D3FF>>, <<\h1D455, \h1D455>>, <<\h1D49D, \h1D49D>>,
      <<\h1D4A0, \h1D4A1>>, <<\h1D4A3, \h1D4A4>>, <<\h1D4A7, \h1D4A8>>,
      <<\h1D4AD, \h1D4AD>>, <<\h1D4BA, \h1D4BA>>, <<\h1D4BC, \h1D4BC>>,
      <<\h1D4C4, \h1D4C4>>, <<\h1D506, \h1D506>>, <<\h1D50B, \h1D50C>>,
      <<\h1D515, \h1D515>>, <<\h1D51D, \h1D51D>>, <<\h1D53A, \h1D53A>>,
      <<\h1D53F, \h1D53F>>, <<\h1D545, \h1D545>>, <<\h1D547, \h1D549>>,
      <<\h1D551, \h1D551>>, <<\h1D6A6, \h1D6A7>>, <<\h1D7CC, \h1D7CD>>,
      <<\h1DA00, \h1DA36>>, <<\h1DA3B, \h1DA6C>>, <<\h1DA75, \h1DA75>>,
      <<\h1DA84, \h1DA84>>, <<\h1DA8C, \h1DEFF>>, <<\h1DF1F, \h1DF24>>,
      <<\h1DF2B, \h1E02F>>, <<\h1E06E, \h1E0FF>>, <<\h1E12D, \h1E136>>,
      <<\h1E13E, \h1E13F>>, <<\h1E14A, \h1E14D>>, <<\h1E150, \h1E28F>>,
      <<\h1E2AE, \h1E2BF>>, <<\h1E2EC, \h1E2EF>>, <<\h1E2FA, \h1E2FE>>,
      <<\h1E300, \h1E4CF>>, <<\h1E4EC, \h1E4EF>>, <<\h1E4FA, \h1E5CF>>,
      <<\h1E5EE, \h1E5EF>>, <<\h1E5FB, \h1E5FE>>, <<\h1E600, \h1E6BF>>,
      <<\h1E6DF, \h1E6DF>>, <<\h1E6E3, \h1E6E3>>, <<\h1E6E6, \h1E6E6>>,
      <<\h1E6EE, \h1E6EF>>, <<\h1E6F5, \h1E6FD>>, <<\h1E700, \h1E7DF>>,
      <<\h1E7E7, \h1E7E7>>, <<\h1E7EC, \h1E7EC>>, <<\h1E7EF, \h1E7EF>>,
      <<\h1E7FF, \h1E7FF>>, <<\h1E8C5, \h1E8C6>>, <<\h1E8D0, \h1E8FF>>,
      <<\h1E944, \h1E94A>>, <<\h1E94C, \h1E94F>>, <<\h1E95A, \h1E95D>>,
      <<\h1E960, \h1EC70>>, <<\h1ECB5, \h1ED00>>, <<\h1ED3E, \h1EDFF>>,
      <<\h1EE04, \h1EE04>>, <<\h1EE20, \h1EE20>>, <<\h1EE23, \h1EE23>>,
      <<\h1EE25, \h1EE26>>, <<\h1EE28, \h1EE28>>, <<\h1EE33, \h1EE33>>,
      <<\h1EE38, \h1EE38>>, <<\h1EE3A, \h1EE3A>>, <<\h1EE3C, \h1EE41>>,
      <<\h1EE43, \h1EE46>>, <<\h1EE48, \h1EE48>>, <<\h1EE4A, \h1EE4A>>,
      <<\h1EE4C, \h1EE4C>>, <<\h1EE50, \h1EE50>>, <<\h1EE53, \h1EE53>>,
      <<\h1EE55, \h1EE56>>, <<\h1EE58, \h1EE58>>, <<\h1EE5A, \h1EE5A>>,
      <<\h1EE5C, \h1EE5C>>, <<\h1EE5E, \h1EE5E>>, <<\h1EE60, \h1EE60>>,
      <<\h1EE63, \h1EE63>>, <<\h1EE65, \h1EE66>>, <<\h1EE6B, \h1EE6B>>,
      <<\h1EE73, \h1EE73>>, <<\h1EE78, \h1EE78>>, <<\h1EE7D, \h1EE7D>>,
      <<\h1EE7F, \h1EE7F>>, <<\h1EE8A, \h1EE8A>>, <<\h1EE9C, \h1EEA0>>,
      <<\h1EEA4, \h1EEA4>>, <<\h1EEAA, \h1EEAA>>, <<\h1EEBC, \h1EEEF>>,
      <<\h1EEF2, \h1EFFF>>, <<\h1F02C, \h1F02F>>, <<\h1F094, \h1F09F>>,
      <<\h1F0AF, \h1F0B0>>, <<\h1F0C0, \h1F0C0>>, <<\h1F0D0, \h1F0D0>>,
      <<\h1F0F6, \h1F0FF>>, <<\h1F1AE, \h1F1E5>>, <<\h1F203, \h1F20F>>,
      <<\h1F23C, \h1F23F>>, <<\h1F249, \h1F24F>>, <<\h1F252, \h1F25F>>,
      <<\h1F266, \h1F2FF>>, <<\h1F6D9, \h1F6DB>>, <<\h1F6ED, \h1F6EF>>,
      <<\h1F6FD, \h1F6FF>>, <<\h1F7DA, \h1F7DF>>, <<\h1F7EC, \h1F7EF>>,
      <<\h1F7F1, \h1F7FF>>, <<\h1F80C, \h1F80F>>, <<\h1F848, \h1F84F>>,
      <<\h1F85A, \h1F85F>>, <<\h1F888, \h1F88F>>, <<\h1F8AE, \h1F8AF>>,
      <<\h1F8BC, \h1F8BF>>, <<\h1F8C2, \h1F8CF>>, <<\h1F8D9, \h1F8FF>>,
      <<\h1FA58, \h1FA5F>>, <<\h1FA6E, \h1FA6F>>, <<\h1FA7D, \h1FA7F>>,
      <<\h1FA8B, \h1FA8D>>, <<\h1FAC7, \h1FAC7>>, <<\h1FAC9, \h1FACC>>,
      <<\h1FADD, \h1FADE>>, <<\h1FAEB, \h1FAEE>>, <<\h1FAF9, \h1FAFF>>,
      <<\h1FB93, \h1FB93>>, <<\h1FBFB, \h1FFFF>>, <<\h2A6E0, \h2A6FF>>,
      <<\h2B81E, \h2B81F>>, <<\h2CEAE, \h2CEAF>>, <<\h2EBE1, \h2EBEF>>,
      <<\h2EE5E, \h2F7FF>>, <<\h2FA1E, \h2FFFF>>, <<\h3134B, \h3134F>>,
      <<\h3347A, \h10FFFF>>>>

\* char::is_grapheme_extended() || !is_printable(c) of the scalar n
is_escaped(n) ==
    IF n < 128 THEN n < 32 \/ n = 127
    ELSE \E i \in DOMAIN EscapedRanges :
             EscapedRanges[i][1] <= n /\ n <= EscapedRanges[i][2]

\* char::escape_debug
EscapeDebug(c, quote) ==
    CASE c = "\\" -> "\\\\"
      [] c = "\n" -> "\\n"
      [] c = "\t" -> "\\t"
      [] c = "\r" -> "\\r"
      [] c = "U+0000" -> "\\0"
      [] c = quote -> "\\" \o quote
      [] c = "\f" -> "\\u{c}"
      [] Len(c) > 2 /\ SubSeq(c, 1, 2) = "U+"
         /\ is_escaped(ScalarValue(c)) ->
             "\\u{" \o LowerHex(ScalarValue(c)) \o "}"
      [] OTHER -> c

RECURSIVE EscapeDebugStr(_)
EscapeDebugStr(s) ==
    IF s = <<>> THEN "" ELSE EscapeDebug(s[1], "\"") \o EscapeDebugStr(Tail(s))

\* format!("{:?}", token), the derived Debug of Token
Debug(t) ==
    CASE t.type = "Ident" -> "Ident(\"" \o EscapeDebugStr(t.literal) \o "\")"
      [] t.type = "Int" ->
             "Int(" \o (IF "int" \in DOMAIN t THEN ToString(t.int)
                        ELSE (IF t.wide.neg THEN "-" ELSE "")
                             \o bn_to_decimal(t.wide.abs)) \o ")"
      [] t.type = "Float" -> "Float(" \o DebugF64(t.float) \o ")"
      [] t.type = "String" -> "String(\"" \o EscapeDebugStr(t.string) \o "\")"
      [] t.type = "Char" -> "Char('" \o EscapeDebug(t.char, "'") \o "')"
      [] OTHER -> t.type

\* the operator a UnaryExpressionNode or a BinaryExpressionNode keeps: the
\* token, named by its characters
operator_of(t) ==
    CASE t.type = "Assign" -> "="
      [] t.type = "Plus" -> "+"
      [] t.type = "Minus" -> "-"
      [] t.type = "Asterisk" -> "*"
      [] t.type = "Slash" -> "/"
      [] t.type = "Percent" -> "%"
      [] t.type = "Power" -> "**"
      [] t.type = "Invert" -> "!"
      [] t.type = "Eq" -> "=="
      [] t.type = "NotEq" -> "!="
      [] t.type = "Lt" -> "<"
      [] t.type = "Gt" -> ">"
      [] t.type = "LtEq" -> "<="
      [] t.type = "GtEq" -> ">="
      [] t.type = "And" -> "&&"
      [] t.type = "Or" -> "||"
      [] t.type = "Comma" -> ","
      [] t.type = "Semicolon" -> ";"
      [] t.type = "Lparen" -> "("
      [] t.type = "Rparen" -> ")"
      [] t.type = "Lbrace" -> "{"
      [] t.type = "Rbrace" -> "}"
      [] t.type = "Lbracket" -> "["
      [] t.type = "Rbracket" -> "]"
      [] OTHER -> Debug(t)

\* assert_eq!(Token::X, self.get_next().unwrap())
AssertNext(p, type, K(_)) ==
    The({IF t.res = "Ok" /\ t.val.type = type THEN K(t.parser)
    ELSE PPanic(t.parser)
        : t \in {get_next(p)}})

\* self.get_next().unwrap();
Skip(p, K(_)) ==
    The({IF t.res = "Ok" THEN K(t.parser) ELSE PPanic(t.parser)
        : t \in {get_next(p)}})

\* the constructors of ast.rs taking a token: unreachable!() on a token of
\* another variant
IdentifierNode_new(t, p) ==
    IF t.type = "Ident" THEN POk(IdentifierNode(Concat(t.literal)), p)
    ELSE PPanic(p)
IntegerLiteralNode_new(t, p) ==
    IF t.type = "Int"
    THEN POk(IF "int" \in DOMAIN t THEN IntegerLiteralNode(t.int)
             ELSE WideIntegerLiteralNode(t.wide), p)
    ELSE PPanic(p)
FloatLiteralNode_new(t, p) ==
    IF t.type = "Float" THEN POk(FloatLiteralNode(t.float), p) ELSE PPanic(p)
BooleanLiteralNode_new(t, p) ==
    IF t.type \in {"True", "False"}
    THEN POk(BooleanLiteralNode(t.type = "True"), p)
    ELSE PPanic(p)
CharacterLiteralNode_new(t, p) ==
    IF t.type = "Char" THEN POk(CharacterLiteralNode(t.char), p)
    ELSE PPanic(p)
StringLiteralNode_new(t, p) ==
    IF t.type = "String" THEN POk(StringLiteralNode(t.string), p)
    ELSE PPanic(p)

parse_identifier(p) ==
    Q(get_next(p), LAMBDA t : IdentifierNode_new(t.val, t.parser))
parse_integer_literal(p) ==
    Q(get_next(p), LAMBDA t : IntegerLiteralNode_new(t.val, t.parser))
parse_float_literal(p) ==
    Q(get_next(p), LAMBDA t : FloatLiteralNode_new(t.val, t.parser))
parse_boolean_literal(p) ==
    Q(get_next(p), LAMBDA t : BooleanLiteralNode_new(t.val, t.parser))
parse_character_literal(p) ==
    Q(get_next(p), LAMBDA t : CharacterLiteralNode_new(t.val, t.parser))
parse_string_literal(p) ==
    Q(get_next(p), LAMBDA t : StringLiteralNode_new(t.val, t.parser))

RECURSIVE parse_statement(_)
RECURSIVE parse_block_expression_loop(_, _)
RECURSIVE parse_expression(_, _)
RECURSIVE parse_expression_loop(_, _, _)
RECURSIVE parse_array_literal_loop(_, _)
RECURSIVE parse_call_expression_loop(_, _)
RECURSIVE parse_function_literal_loop(_, _)

\* the loop of parse_block_expression
parse_block_expression_loop(p, statements) ==
    LET p0 == Logged(p, [ev |-> "begin", what |-> "block",
                         before |-> Len(p.tokens)])
    IN
    Q(peek_next(p0), LAMBDA t :
      IF t.val.type = "Rbrace"
      THEN Skip(t.parser, LAMBDA p1 : POk(BlockExpressionNode(statements), p1))
      ELSE Q(parse_statement(t.parser), LAMBDA s :
             parse_block_expression_loop(s.parser, Append(statements, s.val))))

parse_block_expression(p) ==
    AssertNext(p, "Lbrace", LAMBDA p1 : parse_block_expression_loop(p1, <<>>))

parse_let_statement(p) ==
    AssertNext(p, "Let", LAMBDA p1 :
    Q(expect_next(p1, "Ident"), LAMBDA x1 :
    IF ~x1.val
    THEN PErr(ParseError_Error(
                  "identifier missing or reserved keyword used after 'let'"),
              x1.parser)
    ELSE
    Q(get_next(x1.parser), LAMBDA t :
    Q(IdentifierNode_new(t.val, t.parser), LAMBDA identifier :
    Q(expect_next(identifier.parser, "Assign"), LAMBDA x2 :
    IF ~x2.val
    THEN PErr(ParseError_Error("'=' missing in 'let'"), x2.parser)
    ELSE
    Skip(x2.parser, LAMBDA p2 :
    Q(parse_expression(p2, Precedence_Lowest), LAMBDA expr :
    Q(expect_next(expr.parser, "Semicolon"), LAMBDA x3 :
    IF ~x3.val
    THEN PErr(ParseError_Error("';' missing in 'let'"), x3.parser)
    ELSE
    Skip(x3.parser, LAMBDA p3 :
         POk(LetStatementNode(identifier.val.name, expr.val), p3))))))))))

parse_return_statement(p) ==
    AssertNext(p, "Return", LAMBDA p1 :
    Q(expect_next(p1, "Semicolon"), LAMBDA x1 :
    IF x1.val
    THEN Skip(x1.parser, LAMBDA p2 : POk(ReturnStatementNode(None), p2))
    ELSE
    Q(parse_expression(x1.parser, Precedence_Lowest), LAMBDA expr :
    Q(expect_next(expr.parser, "Semicolon"), LAMBDA x2 :
    IF ~x2.val
    THEN PErr(ParseError_Error("';' missing in 'return'"), x2.parser)
    ELSE
    Skip(x2.parser, LAMBDA p3 :
         POk(ReturnStatementNode(Some(expr.val)), p3))))))

parse_expression_statement(p) ==
    Q(parse_expression(p, Precedence_Lowest), LAMBDA expr :
    Q(expect_next(expr.parser, "Semicolon"), LAMBDA x :
    IF x.val
    THEN Skip(x.parser, LAMBDA p1 : POk(ExpressionStatementNode(expr.val), p1))
    ELSE POk(ExpressionStatementNode(expr.val), x.parser)))

parse_statement(p) ==
    Q(Q(peek_next(p), LAMBDA t :
        CASE t.val.type = "Let" -> parse_let_statement(t.parser)
          [] t.val.type = "Return" -> parse_return_statement(t.parser)
          [] OTHER -> parse_expression_statement(t.parser)),
      LAMBDA r :
        POk(r.val, Logged(r.parser,
                [ev |-> "end", what |-> "statement",
                 before |-> Len(p.tokens),
                 after |-> Len(r.parser.tokens)])))

parse_grouped_expression(p) ==
    AssertNext(p, "Lparen", LAMBDA p1 :
    Q(parse_expression(p1, Precedence_Lowest), LAMBDA expr :
    Q(expect_next(expr.parser, "Rparen"), LAMBDA x :
    IF ~x.val
    THEN PErr(ParseError_Error("')' missing in grouped expression"), x.parser)
    ELSE Skip(x.parser, LAMBDA p2 : POk(expr.val, p2)))))

\* the loop of parse_array_literal
parse_array_literal_loop(p, elements) ==
    Q(peek_next(p), LAMBDA t :
    IF t.val.type = "Rbracket"
    THEN Skip(t.parser, LAMBDA p1 : POk(ArrayLiteralNode(elements), p1))
    ELSE
    Q(parse_expression(t.parser, Precedence_Lowest), LAMBDA e :
    Q(peek_next(e.parser), LAMBDA u :
    CASE u.val.type = "Rbracket" ->
             Skip(u.parser, LAMBDA p1 :
                  POk(ArrayLiteralNode(Append(elements, e.val)), p1))
      [] u.val.type = "Comma" ->
             Skip(u.parser, LAMBDA p1 :
                  parse_array_literal_loop(p1, Append(elements, e.val)))
      [] OTHER ->
             PErr(ParseError_Error(
                      "',' expected but not found in array literal"),
                  u.parser))))

parse_array_literal(p) ==
    AssertNext(p, "Lbracket", LAMBDA p1 : parse_array_literal_loop(p1, <<>>))

parse_unary_expression(p) ==
    Q(get_next(p), LAMBDA operator :
    Q(parse_expression(operator.parser, Precedence_Unary), LAMBDA e :
      POk(UnaryExpressionNode(operator_of(operator.val), e.val), e.parser)))

binary_right_associative(p, left) ==
    Q(get_next(p), LAMBDA operator :
    Q(parse_expression(operator.parser, lookup_precedence(operator.val) - 1),
      LAMBDA right :
      POk(BinaryExpressionNode(operator_of(operator.val), left, right.val),
          right.parser)))

parse_binary_expression(p, left) ==
    Q(get_next(p), LAMBDA operator :
    Q(parse_expression(operator.parser, lookup_precedence(operator.val)),
      LAMBDA right :
      POk(BinaryExpressionNode(operator_of(operator.val), left, right.val),
          right.parser)))

parse_index_expression(p, array) ==
    AssertNext(p, "Lbracket", LAMBDA p1 :
    Q(expect_next(p1, "Rbracket"), LAMBDA x1 :
    IF x1.val
    THEN PErr(ParseError_Error("empty index in array index expression"),
              x1.parser)
    ELSE
    Q(parse_expression(x1.parser, Precedence_Lowest), LAMBDA index :
    Q(expect_next(index.parser, "Rbracket"), LAMBDA x2 :
    IF ~x2.val
    THEN PErr(ParseError_Error("']' missing in array index expression"),
              x2.parser)
    ELSE Skip(x2.parser, LAMBDA p2 :
              POk(IndexExpressionNode(array, index.val), p2))))))

\* the loop of parse_call_expression
parse_call_expression_loop(p, f_arguments) ==
    Q(peek_next(p), LAMBDA t :
    IF t.val.type = "Rparen"
    THEN Skip(t.parser, LAMBDA p1 :
              POk(CallExpressionNode(f_arguments[1], f_arguments[2]), p1))
    ELSE
    Q(parse_expression(t.parser, Precedence_Lowest), LAMBDA e :
    Q(peek_next(e.parser), LAMBDA u :
    CASE u.val.type = "Rparen" ->
             Skip(u.parser, LAMBDA p1 :
                  POk(CallExpressionNode(f_arguments[1],
                                         Append(f_arguments[2], e.val)), p1))
      [] u.val.type = "Comma" ->
             Skip(u.parser, LAMBDA p1 :
                  parse_call_expression_loop(
                      p1, <<f_arguments[1], Append(f_arguments[2], e.val)>>))
      [] OTHER ->
             PErr(ParseError_Error(
                      "',' expected but not found in argument list"),
                  u.parser))))

parse_call_expression(p, function) ==
    AssertNext(p, "Lparen", LAMBDA p1 :
               parse_call_expression_loop(p1, <<function, <<>>>>))

parse_if_expression(p) ==
    AssertNext(p, "If", LAMBDA p1 :
    Q(expect_next(p1, "Lparen"), LAMBDA x1 :
    IF ~x1.val
    THEN PErr(ParseError_Error("'(' missing in 'if' condition"), x1.parser)
    ELSE
    Skip(x1.parser, LAMBDA p2 :
    Q(parse_expression(p2, Precedence_Lowest), LAMBDA condition :
    Q(expect_next(condition.parser, "Rparen"), LAMBDA x2 :
    IF ~x2.val
    THEN PErr(ParseError_Error("')' missing in 'if' condition"), x2.parser)
    ELSE
    Skip(x2.parser, LAMBDA p3 :
    Q(expect_next(p3, "Lbrace"), LAMBDA x3 :
    IF ~x3.val
    THEN PErr(ParseError_Error("'{' missing in 'if' block"), x3.parser)
    ELSE
    Q(parse_block_expression(x3.parser), LAMBDA if_value :
    Q(expect_next(if_value.parser, "Else"), LAMBDA x4 :
    IF ~x4.val
    THEN POk(IfExpressionNode(condition.val, if_value.val, None), x4.parser)
    ELSE
    Skip(x4.parser, LAMBDA p4 :
    Q(expect_next(p4, "Lbrace"), LAMBDA x5 :
    IF ~x5.val
    THEN PErr(ParseError_Error("'{' missing in 'else' block"), x5.parser)
    ELSE
    Q(parse_block_expression(x5.parser), LAMBDA else_value :
      POk(IfExpressionNode(condition.val, if_value.val, Some(else_value.val)),
          else_value.parser)))))))))))))

\* the loop of parse_function_literal
parse_function_literal_loop(p, parameters) ==
    Q(peek_next(p), LAMBDA t :
    CASE t.val.type = "Rparen" ->
             Skip(t.parser, LAMBDA p1 : POk(parameters, p1))
      [] t.val.type = "Ident" ->
             Q(parse_identifier(t.parser), LAMBDA i :
             Q(peek_next(i.parser), LAMBDA u :
             CASE u.val.type = "Rparen" ->
                      Skip(u.parser, LAMBDA p1 :
                           POk(Append(parameters, i.val.name), p1))
               [] u.val.type = "Comma" ->
                      Skip(u.parser, LAMBDA p1 :
                           parse_function_literal_loop(
                               p1, Append(parameters, i.val.name)))
               [] OTHER ->
                      PErr(ParseError_Error(
                               "',' expected but not found in parameter list"),
                           u.parser)))
      [] OTHER ->
             PErr(ParseError_Error(
                      "expected identifier but found '" \o Debug(t.val)
                      \o "' in function parameter list"),
                  t.parser))

parse_function_literal(p) ==
    AssertNext(p, "Function", LAMBDA p1 :
    Q(expect_next(p1, "Lparen"), LAMBDA x1 :
    IF ~x1.val
    THEN PErr(ParseError_Error("'(' missing in function parameter list"),
              x1.parser)
    ELSE
    Skip(x1.parser, LAMBDA p2 :
    Q(parse_function_literal_loop(p2, <<>>), LAMBDA parameters :
    Q(expect_next(parameters.parser, "Lbrace"), LAMBDA x2 :
    IF ~x2.val
    THEN PErr(ParseError_Error("function body missing"), x2.parser)
    ELSE
    Q(parse_block_expression(x2.parser), LAMBDA body :
      POk(FunctionLiteralNode(parameters.val, body.val), body.parser)))))))

\* the loop of parse_expression: Err(ParseError::Eof) of peek_next breaks it
parse_expression_loop(p, precedence, expr) ==
    The({IF n.res = "Panic" THEN n
    ELSE IF n.res = "Err" THEN POk(expr, n.parser)
    ELSE IF n.val.type = "Semicolon" \/ precedence >= lookup_precedence(n.val)
    THEN POk(expr, n.parser)
    ELSE Q(CASE n.val.type = "Lparen" -> parse_call_expression(n.parser, expr)
             [] n.val.type = "Lbracket" ->
                    parse_index_expression(n.parser, expr)
             [] OTHER -> parse_binary_expression(n.parser, expr),
           LAMBDA e : parse_expression_loop(e.parser, precedence, e.val))
        : n \in {peek_next(p)}})

parse_expression(p, precedence) ==
    Q(Q(Q(peek_next(Logged(p, [ev |-> "begin", what |-> "expression",
                               before |-> Len(p.tokens)])),
          LAMBDA t :
              CASE t.val.type = "Lbrace" -> parse_block_expression(t.parser)
                [] t.val.type = "Lparen" -> parse_grouped_expression(t.parser)
                [] t.val.type = "Ident" -> parse_identifier(t.parser)
                [] t.val.type = "Int" -> parse_integer_literal(t.parser)
                [] t.val.type = "Float" -> parse_float_literal(t.parser)
                [] t.val.type \in {"True", "False"} ->
                       parse_boolean_literal(t.parser)
                [] t.val.type = "Char" -> parse_character_literal(t.parser)
                [] t.val.type = "String" -> parse_string_literal(t.parser)
                [] t.val.type = "Lbracket" -> parse_array_literal(t.parser)
                [] t.val.type \in {"Invert", "Minus"} ->
                       parse_unary_expression(t.parser)
                [] t.val.type = "If" -> parse_if_expression(t.parser)
                [] t.val.type = "Function" -> parse_function_literal(t.parser)
                [] OTHER ->
                       PErr(ParseError_Error(
                                "unexpected start of expression: "
                                \o Debug(t.val)),
                            t.parser)),
        LAMBDA expr :
            parse_expression_loop(expr.parser, precedence, expr.val)),
      LAMBDA r :
        POk(r.val, Logged(r.parser,
                [ev |-> "end", what |-> "expression",
                 before |-> Len(p.tokens),
                 after |-> Len(r.parser.tokens)])))

\* one iteration of the loop of parse: res "Continue" where the loop goes
\* on, with the statements pushed so far, and else what parse returns;
\* Err(ParseError::Eof) of parse_statement is returned as a message
eof_returned_as_it_is(p, statements) ==
    LET p0 == Logged(p, [ev |-> "begin", what |-> "root",
                         before |-> Len(p.tokens)])
    IN
    IF p.tokens = <<>> THEN PPanic(p0)
    ELSE IF p.tokens[1].type = "Eof" THEN POk(RootNode(statements), p0)
    ELSE
    Q(expect_next(p0, "Semicolon"), LAMBDA x :
    IF x.val
    THEN Skip(x.parser, LAMBDA p1 :
              [res |-> "Continue", statements |-> statements, parser |-> p1])
    ELSE
    Q(parse_statement(x.parser), LAMBDA statement :
      [res |-> "Continue", statements |-> Append(statements, statement.val),
       parser |-> statement.parser]))

parse_iteration(p, statements) ==
    LET p0 == Logged(p, [ev |-> "begin", what |-> "root",
                         before |-> Len(p.tokens)])
    IN
    IF p.tokens = <<>> THEN PPanic(p0)
    ELSE IF p.tokens[1].type = "Eof" THEN POk(RootNode(statements), p0)
    ELSE
    Q(expect_next(p0, "Semicolon"), LAMBDA x :
    IF x.val
    THEN Skip(x.parser, LAMBDA p1 :
              [res |-> "Continue", statements |-> statements, parser |-> p1])
    ELSE
    The({CASE statement.res = "Err" ->
             IF statement.err.kind = "Eof"
             THEN PErr(ParseError_Error(
                           "unexpected eof in the middle of a statement"),
                       statement.parser)
             ELSE statement
      [] statement.res = "Ok" ->
             [res |-> "Continue",
              statements |-> Append(statements, statement.val),
              parser |-> statement.parser]
      [] OTHER -> statement
        : statement \in {parse_statement(x.parser)}}))

RECURSIVE parse_loop(_, _)
parse_loop(p, statements) ==
    The({IF r.res = "Continue" THEN parse_loop(r.parser, r.statements) ELSE r
        : r \in {parse_iteration(p, statements)}})

\* Parser::parse
parse(p) == parse_loop(p, <<>>)

\* Parser::new(v).parse()
new_and_parse(v) ==
    IF Parser_new(v).res = "Ok" THEN parse(Parser_new(v).parser)
    ELSE Parser_new(v)

(***************************************************************************)
(* repl.rs: one line                                                       *)
(***************************************************************************)
\* the loop of get_tokens
RECURSIVE get_tokens_loop(_, _)
get_tokens_loop(l, v) ==
    The({IF t.res # "Ok" THEN t
    ELSE IF t.val = Tok("Eof") THEN LexOk(Append(v, Tok("Eof")), t.lexer)
    ELSE get_tokens_loop(t.lexer, Append(v, t.val))
        : t \in {get_next_token(l)}})

get_tokens(s) == get_tokens_loop(Lexer_new(s), <<>>)

\* char::is_whitespace: the scalars with the property White_Space
Whitespace ==
    {"\t", "\n", "U+000B", "\f", "\r", " ", "U+0085", "U+00A0", "U+1680",
     "U+2000", "U+2001", "U+2002", "U+2003", "U+2004", "U+2005", "U+2006",
     "U+2007", "U+2008", "U+2009", "U+200A", "U+2028", "U+2029", "U+202F",
     "U+205F", "U+3000"}

\* line.trim().is_empty()
is_blank(s) == \A i \in 1..Len(s) : s[i] \in Whitespace

\* The body of the loop of start() for the line s and the session
\* environment e: what the lexer, the parser and the evaluator returned, as
\* far as they were called, the environment and the evaluation steps
\* taken.  outcome is "blank", "lexer error", "parser error", "evaluated"
\* or, where the process panics, "panic".
read_eval_print(e, s, libm) ==
    LET none == [res |-> "None"]
        out(outcome, t, p, r) ==
            [outcome |-> outcome, lexed |-> t, parsed |-> p, evaluated |-> r,
             env |-> IF r.res = "None" THEN e ELSE r.eval.env]
    IN
    IF is_blank(s) THEN out("blank", none, none, none)
    ELSE
    The({CASE t.res = "Err" -> out("lexer error", t, none, none)
      [] t.res = "Panic" -> out("panic", t, none, none)
      [] OTHER ->
         The({CASE p.res = "Err" -> out("parser error", t, p, none)
           [] p.res = "Panic" -> out("panic", t, p, none)
           [] OTHER ->
                  The({out(IF panicked(r.eval) THEN "panic"
                               ELSE "evaluated", t, p, r)
                      : r \in {[res |-> "Done", eval |-> eval(p.val, e, <<>>,
                              libm)]}})
             : p \in {new_and_parse(t.val)}})
        : t \in {get_tokens(s)}})

(***************************************************************************)
(* repl.rs: the session                                                    *)
(***************************************************************************)
\* powers next to half-way between two f64: 10.0 ** 23.0, 3.0 ** 0.5
HalfwayPowers ==
    {<<parse_f64(<<"1", "0", ".", "0">>).val,
       parse_f64(<<"2", "3", ".", "0">>).val>>,
     <<parse_f64(<<"3", ".", "0">>).val, parse_f64(<<"0", ".", "5">>).val>>}

\* the libms of the sessions explored: what a libm does with the powers of
\* HalfwayPowers
SessionLibms == SUBSET HalfwayPowers

Init ==
    /\ env = Environment_new(None)
    /\ line = Prog(<<>>)
    /\ result = [ok |-> TRUE, val |-> Null]
    /\ hist = <<>>
    /\ nlines = 0
    /\ status = "running"
    /\ platform \in SessionLibms
    /\ lexer = Lexer_new(<<>>)
    /\ token = [res |-> "None"]
    /\ from = 0
    /\ tokens = <<>>
    /\ parser = Parser(<<>>)
    /\ parsed = [res |-> "None"]

\* one iteration of the loop of start() for a line that lexes and parses
\* to the RootNode p: the line is evaluated against the session environment
\* and the value or the error is printed; where the evaluation panics the
\* process ends, result is the panic and nothing is printed.  The sessions
\* explored are those whose lines before the last one are SessionPrograms.
\* get_tokens has returned Ok after the token Eof and parse() has returned
\* Ok(p); the lexer, the tokens and the parser are dropped with the
\* iteration.
ReadLine(p) ==
    /\ status = "running"
    /\ nlines < MaxLines
    /\ line \in SessionPrograms
    /\ LET r == eval(p, env, <<>>, platform) IN
        /\ env' = r.env
        /\ line' = p
        /\ result' = IF r.ok THEN [ok |-> TRUE, val |-> r.val]
                             ELSE [ok |-> FALSE, err |-> r.err]
        /\ hist' = r.h
        /\ status' = IF panicked(r) THEN "aborted"
                     ELSE IF r.h # <<>> /\ r.h[Len(r.h)].ev = "exit"
                     THEN "exited" ELSE "running"
    /\ nlines' = nlines + 1
    /\ token' = [res |-> "Ok", token |-> Tok("Eof")]
    /\ parsed' = [res |-> "Ok", val |-> p]
    /\ lexer' = Lexer_new(<<>>)
    /\ from' = 0
    /\ tokens' = <<>>
    /\ parser' = Parser(<<>>)
    /\ UNCHANGED platform

\* the lines read as text
TextLines ==
    {\* let a = 1; 2 +
     <<"l", "e", "t", " ", "a", " ", "=", " ", "1", ";", " ", "2", " ", "+">>,
     \* let b = 2; let
     <<"l", "e", "t", " ", "b", " ", "=", " ", "2", ";", " ", "l", "e", "t">>,
     \* let a = 1; { 3;; 4 }
     <<"l", "e", "t", " ", "a", " ", "=", " ", "1", ";", " ", "{", " ", "3",
       ";", ";", " ", "4", " ", "}">>,
     \* let a = 1; 'ab'
     <<"l", "e", "t", " ", "a", " ", "=", " ", "1", ";", " ", "'", "a", "b",
       "'">>,
     \* let a = 1; "b
     <<"l", "e", "t", " ", "a", " ", "=", " ", "1", ";", " ", "\"", "b">>,
     \* let a = 1; @
     <<"l", "e", "t", " ", "a", " ", "=", " ", "1", ";", " ", "@">>,
     \* let a = 1; a + 2
     <<"l", "e", "t", " ", "a", " ", "=", " ", "1", ";", " ", "a", " ", "+",
       " ", "2">>,
     \* a
     <<"a">>,
     \* a blank line
     <<" ", "\t">>}

\* one iteration of the loop of start() for the line s, read as text.
\* token and parsed tell how get_tokens and parse() ended for the line, as
\* far as they were called; the lexer, the tokens and the parser are
\* dropped with the iteration; line, result and hist are those of the last
\* line evaluated.
ReadText(s) ==
    /\ status = "running"
    /\ nlines < MaxLines
    /\ line \in SessionPrograms
    /\ \E o \in {read_eval_print(env, s, platform)} :
        /\ env' = o.env
        /\ token' = CASE o.lexed.res = "Ok" ->
                             [res |-> "Ok", token |-> Tok("Eof")]
                      [] o.lexed.res = "Err" ->
                             [res |-> "Err", err |-> o.lexed.err]
                      [] OTHER -> [res |-> o.lexed.res]
        /\ parsed' = CASE o.parsed.res = "Ok" ->
                              [res |-> "Ok", val |-> o.parsed.val]
                       [] o.parsed.res = "Err" ->
                              [res |-> "Err", err |-> o.parsed.err]
                       [] OTHER -> [res |-> o.parsed.res]
        /\ IF o.evaluated.res = "Done"
           THEN LET r == o.evaluated.eval IN
                /\ line' = IF o.parsed.res = "Ok" THEN o.parsed.val ELSE line
                /\ result' = IF r.ok THEN [ok |-> TRUE, val |-> r.val]
                                     ELSE [ok |-> FALSE, err |-> r.err]
                /\ hist' = r.h
                /\ status' = IF panicked(r) THEN "aborted"
                             ELSE IF r.h # <<>> /\ r.h[Len(r.h)].ev = "exit"
                             THEN "exited" ELSE "running"
           ELSE /\ UNCHANGED <<line, result, hist>>
                /\ status' = IF o.outcome = "panic" THEN "aborted"
                             ELSE "running"
    /\ nlines' = nlines + 1
    /\ lexer' = Lexer_new(<<>>)
    /\ from' = 0
    /\ tokens' = <<>>
    /\ parser' = Parser(<<>>)
    /\ UNCHANGED platform

\* readline() returns Err (end of input): the loop ends
Quit ==
    /\ status = "running"
    /\ status' = "stopped"
    /\ UNCHANGED <<env, line, result, hist, nlines, platform, lexer, token,
                   from, tokens, parser, parsed>>

Next ==
    \/ \E p \in Programs : ReadLine(p)
    \/ \E s \in TextLines : ReadText(s)
    \/ Quit

Spec == Init /\ [][Next]_vars

(***************************************************************************)
(* repl.rs, get_tokens: a lexer over one input line, queried token by      *)
(* token                                                                   *)
(***************************************************************************)
\* the characters of the generated input lines
LexAlphabet == {"'", "\\", "\"", "p", "n", "@"}

\* input lines of the tests of lexer.rs, and lines with a character that
\* starts no token
LexLines ==
    {<<"1">>, <<"1", ".">>, <<".">>, <<".", "0">>, <<"3", ".", "1", "4">>,
     <<"1", ".", "2", ".", "3">>,
     <<"\"", "a", " ", "b", "\"">>, <<"\"", "U+3042", "U+3044", "\"">>,
     <<"\"", "\\", "n", "\\", "t", "\"">>,
     <<"\"", "a", "\\", "p", "b", "\"">>,
     <<"'", "a", "b", "'">>, <<"'", "U+3042", "'">>,
     <<"'", "\\", "0", "'">>, <<"'", "\\", "t", "'">>,
     <<"'", "\\", "r", "'">>,
     <<" ", "'", "\\", "p", "'", " ">>,
     <<"l", "e", "t", " ", "x", "_", "1", " ", "=", " ", "5", ";">>,
     <<"i", "f", " ", "(", "a", " ", "=", "=", " ", "b", ")">>,
     <<"a", "&", "&", "b", "|", "|", "!", "c">>,
     <<"a", " ", "&", " ", "b">>, <<"a", "|">>,
     <<"2", "*", "*", "3", "<", "=", "4">>,
     <<"f", "n", "(", ")", "{", "}", "[", "]">>,
     <<"a", " ", "@", " ", "b">>, <<"U+3042">>,
     <<"x", "\t", "\n", "y">>}

LexInputs ==
    UNION {[1..k -> LexAlphabet] : k \in 0..MaxInput} \cup LexLines

\* get_tokens(&line) for an input line, before the line is evaluated
LexInit ==
    /\ env = Environment_new(None)
    /\ line = Prog(<<>>)
    /\ result = [ok |-> TRUE, val |-> Null]
    /\ hist = <<>>
    /\ nlines = 0
    /\ status = "running"
    /\ platform = {}
    /\ lexer \in {Lexer_new(s) : s \in LexInputs}
    /\ token = [res |-> "None"]
    /\ from = 0
    /\ tokens = <<>>
    /\ parser = Parser(<<>>)
    /\ parsed = [res |-> "None"]

\* one iteration of the loop of get_tokens, or a further call of
\* get_next_token once Eof has been returned; an Err ends get_tokens and a
\* panic ends the process
GetNextToken ==
    /\ token.res \in {"None", "Ok"}
    /\ LET r == get_next_token(lexer) IN
        /\ lexer' = r.lexer
        /\ token' = CASE r.res = "Ok" -> [res |-> "Ok", token |-> r.val]
                      [] r.res = "Err" -> [res |-> "Err", err |-> r.err]
                      [] r.res = "Panic" -> [res |-> "Panic"]
        /\ from' = lexer.position
    /\ UNCHANGED <<env, line, result, hist, nlines, status, platform, tokens,
                   parser, parsed>>

LexNext == GetNextToken

LexSpec == LexInit /\ [][LexNext]_vars

(***************************************************************************)
(* The parser alone: Parser::new(tokens).parse() for a token sequence that *)
(* ends with Eof, one iteration of the loop of parse() at a step.          *)
(***************************************************************************)
BinaryOperatorTokens ==
    {"Plus", "Minus", "Asterisk", "Slash", "Percent", "Power", "Eq", "NotEq",
     "Lt", "Gt", "LtEq", "GtEq", "And", "Or"}

ParseAlphabet ==
    {TokInt(1), TokIdent(<<"a">>), Tok("Plus"), Tok("Minus"), Tok("Semicolon"),
     Tok("Lbrace"), Tok("Rbrace"), Tok("Lparen"), Tok("Rparen"), Tok("Let"),
     Tok("Assign"), Tok("Return"), Tok("If"), Tok("Function"), Tok("Comma"),
     Tok("Lbracket"), Tok("Rbracket")}

\* a op1 b op2 c
Chains ==
    { <<TokIdent(<<"a">>), Tok(op1), TokIdent(<<"b">>), Tok(op2),
        TokIdent(<<"c">>)>> : op1 \in BinaryOperatorTokens,
                              op2 \in BinaryOperatorTokens }

\* -a op b, !a op b, -f(), !f(), -a[1], !a[1]
PrefixChains ==
    { <<Tok(u), TokIdent(<<"a">>), Tok(op), TokIdent(<<"b">>)>> :
          u \in {"Minus", "Invert"}, op \in BinaryOperatorTokens }
    \cup { <<Tok(u), TokIdent(<<"f">>), Tok("Lparen"), Tok("Rparen")>> :
               u \in {"Minus", "Invert"} }
    \cup { <<Tok(u), TokIdent(<<"a">>), Tok("Lbracket"), TokInt(1),
             Tok("Rbracket")>> : u \in {"Minus", "Invert"} }

\* the tokens without a payload
Punctuation ==
    BinaryOperatorTokens \cup
    {"Assign", "Invert", "Comma", "Semicolon", "Lparen", "Rparen", "Lbrace",
     "Rbrace", "Lbracket", "Rbracket", "Function", "Let", "Return", "True",
     "False", "If", "Else"}

\* a x b and x a, for every such token x
Placed ==
    { <<TokIdent(<<"a">>), Tok(x), TokIdent(<<"b">>)>> : x \in Punctuation }
    \cup { <<Tok(x), TokIdent(<<"a">>)>> : x \in Punctuation }

\* the token sequences of the inputs of the tests of parser.rs, and
\* sequences that end where something else is required
ParseLines ==
    LET a == TokIdent(<<"a">>)
        b == TokIdent(<<"b">>)
        c == TokIdent(<<"c">>)
        f == TokIdent(<<"f">>)
        n(v) == TokInt(v)
        t(x) == Tok(x)
        semi == Tok("Semicolon")
        lp == Tok("Lparen")
        rp == Tok("Rparen")
        lb == Tok("Lbrace")
        rb == Tok("Rbrace")
        lk == Tok("Lbracket")
        rk == Tok("Rbracket")
        cm == Tok("Comma")
        tt == Tok("True")
    IN
    {\* 3; ; 4          { 3;; 4 }          { 3; 4 }          3; 4
     <<n(3), semi, semi, n(4)>>, <<lb, n(3), semi, semi, n(4), rb>>,
     <<lb, n(3), semi, n(4), rb>>, <<n(3), semi, n(4)>>,
     \* ;; 3 ;;         { ; }          fn() { 3;; }         { 3 } ; ; 4
     <<semi, semi, n(3), semi, semi>>, <<lb, semi, rb>>,
     <<t("Function"), lp, rp, lb, n(3), semi, semi, rb>>,
     <<lb, n(3), rb, semi, semi, n(4)>>,
     \* let          3 +          let a =          let a          let a = 1
     <<t("Let")>>, <<n(3), t("Plus")>>, <<t("Let"), a, t("Assign")>>,
     <<t("Let"), a>>, <<t("Let"), a, t("Assign"), n(1)>>,
     \* let a = 1; let b = a;          let if = 1;
     <<t("Let"), a, t("Assign"), n(1), semi, t("Let"), b, t("Assign"), a,
       semi>>,
     <<t("Let"), t("If"), t("Assign"), n(1), semi>>,
     \* return          return;          return 1          return 1;
     <<t("Return")>>, <<t("Return"), semi>>, <<t("Return"), n(1)>>,
     <<t("Return"), n(1), semi>>,
     \* if true { 3 }          if (true { 3 }          if (true) 3 }
     <<t("If"), tt, lb, n(3), rb>>, <<t("If"), lp, tt, lb, n(3), rb>>,
     <<t("If"), lp, tt, rp, n(3), rb>>,
     \* if (true) { 3          if (true) { 3 } else 4
     <<t("If"), lp, tt, rp, lb, n(3)>>,
     <<t("If"), lp, tt, rp, lb, n(3), rb, t("Else"), n(4)>>,
     \* if (true) { 3 } else { 4          if (true) { 3 } else { 4 }
     <<t("If"), lp, tt, rp, lb, n(3), rb, t("Else"), lb, n(4)>>,
     <<t("If"), lp, tt, rp, lb, n(3), rb, t("Else"), lb, n(4), rb>>,
     \* if          if (          if (true)          if (true) { 3 } else
     <<t("If")>>, <<t("If"), lp>>, <<t("If"), lp, tt, rp>>,
     <<t("If"), lp, tt, rp, lb, n(3), rb, t("Else")>>,
     \* fn(a) { if (true) { (1 +          fn(a) { if (true) { 3;
     <<t("Function"), lp, a, rp, lb, t("If"), lp, tt, rp, lb, lp, n(1),
       t("Plus")>>,
     <<t("Function"), lp, a, rp, lb, t("If"), lp, tt, rp, lb, n(3), semi>>,
     \* { { let a =          { { return          [f(-
     <<lb, lb, t("Let"), a, t("Assign")>>, <<lb, lb, t("Return")>>,
     <<lk, f, lp, t("Minus")>>,
     \* f(1,          [1,          a[          fn(          fn(a,
     <<f, lp, n(1), cm>>, <<lk, n(1), cm>>, <<a, lk>>, <<t("Function"), lp>>,
     <<t("Function"), lp, a, cm>>,
     \* fn          fn()          fn(1) { }          fn(a b) { }          fn a
     <<t("Function")>>, <<t("Function"), lp, rp>>,
     <<t("Function"), lp, n(1), rp, lb, rb>>,
     <<t("Function"), lp, a, b, rp, lb, rb>>, <<t("Function"), a>>,
     \* fn(a, b,) { a + b }(1, 2,)
     <<t("Function"), lp, a, cm, b, cm, rp, lb, a, t("Plus"), b, rb, lp, n(1),
       cm, n(2), cm, rp>>,
     \* f(1 2)          [1 2]          [1, 2,]          a[]          a[1
     <<f, lp, n(1), n(2), rp>>, <<lk, n(1), n(2), rk>>,
     <<lk, n(1), cm, n(2), cm, rk>>, <<a, lk, rk>>, <<a, lk, n(1)>>,
     \* a[1][2]          (1          (1 + 2) * 3          f(
     <<a, lk, n(1), rk, lk, n(2), rk>>, <<lp, n(1)>>,
     <<lp, n(1), t("Plus"), n(2), rp, t("Asterisk"), n(3)>>, <<f, lp>>,
     \* a = b          a , b          1 )          a else b          a ! b
     <<a, t("Assign"), b>>, <<a, cm, b>>, <<n(1), rp>>, <<a, t("Else"), b>>,
     <<a, t("Invert"), b>>,
     \* -a * b          !a == b          -f(1)          -a[1]          !f()
     <<t("Minus"), a, t("Asterisk"), b>>, <<t("Invert"), a, t("Eq"), b>>,
     <<t("Minus"), f, lp, n(1), rp>>, <<t("Minus"), a, lk, n(1), rk>>,
     <<t("Invert"), f, lp, rp>>,
     \* - - a          a ** -b          !-a || b          a + b(c)
     <<t("Minus"), t("Minus"), a>>, <<a, t("Power"), t("Minus"), b>>,
     <<t("Invert"), t("Minus"), a, t("Or"), b>>,
     <<a, t("Plus"), b, lp, c, rp>>,
     \* a * b[c]          -a ** b          !a && b          -a - b
     <<a, t("Asterisk"), b, lk, c, rk>>, <<t("Minus"), a, t("Power"), b>>,
     <<t("Invert"), a, t("And"), b>>, <<t("Minus"), a, t("Minus"), b>>,
     \* 0 || 1 && 2 + -f() * 4 == 5;
     <<n(0), t("Or"), n(1), t("And"), n(2), t("Plus"), t("Minus"), f, lp, rp,
       t("Asterisk"), n(4), t("Eq"), n(5), semi>>,
     \* 0 || 1 && 2 - !a[3] % 4 < 5;
     <<n(0), t("Or"), n(1), t("And"), n(2), t("Minus"), t("Invert"), a, lk,
       n(3), rk, t("Percent"), n(4), t("Lt"), n(5), semi>>,
     \* 1.5 'c' "ab" true false
     <<TokFloat(parse_f64(<<"1", ".", "5">>).val), TokChar("c"), TokString(<<"a", "b">>), tt,
       t("False")>>,
     \* fn(1.5)          fn("a\"")          fn('\'')          fn(-
     <<t("Function"), lp, TokFloat(parse_f64(<<"1", ".", "5">>).val)>>,
     <<t("Function"), lp, TokString(<<"a", "\"">>)>>,
     <<t("Function"), lp, TokChar("'")>>,
     <<t("Function"), lp, t("Minus")>>}

ParseInputs ==
    UNION {[1..k -> ParseAlphabet] : k \in 0..MaxTokens}
    \cup Chains \cup PrefixChains \cup Placed \cup ParseLines

\* Parser::new(tokens), before parse()
ParseInit ==
    /\ env = Environment_new(None)
    /\ line = Prog(<<>>)
    /\ result = [ok |-> TRUE, val |-> Null]
    /\ hist = <<>>
    /\ nlines = 0
    /\ status = "running"
    /\ platform = {}
    /\ lexer = Lexer_new(<<>>)
    /\ token = [res |-> "None"]
    /\ from = 0
    /\ tokens \in {v \o <<Tok("Eof")>> : v \in ParseInputs}
    /\ parser = Parser_new(tokens).parser
    /\ parsed = [res |-> "Continue", statements |-> <<>>]

\* one iteration of the loop of parse(): the loop goes on, or parse()
\* returns, or the process panics
ParseStep ==
    /\ parsed.res = "Continue"
    /\ \E r \in {parse_iteration(parser, parsed.statements)} :
        /\ parser' = r.parser
        /\ parsed' = CASE r.res = "Continue" ->
                              [res |-> "Continue", statements |-> r.statements]
                       [] r.res = "Ok" -> [res |-> "Ok", val |-> r.val]
                       [] r.res = "Err" -> [res |-> "Err", err |-> r.err]
                       [] r.res = "Panic" -> [res |-> "Panic"]
    /\ UNCHANGED <<env, line, result, hist, nlines, status, platform, lexer,
                   token, from, tokens>>

ParseNext == ParseStep

ParseSpec == ParseInit /\ [][ParseNext]_vars

(***************************************************************************)
(* Reading the history of the line evaluated last                          *)
(***************************************************************************)
Events == 1..Len(hist)

EventsOf(kind) == {i \in Events : hist[i].ev = kind}

IsStatement(n) == n.node \in {"Let", "Return", "ExpressionStatement"}

\* the calls of user functions whose body is being evaluated after the
\* first i events
OpenCalls(i) ==
    {hist[m].call : m \in {m \in 1..i : hist[m].ev = "body"}}
    \ {hist[m].call : m \in {m \in 1..i : hist[m].ev = "ret"}}

\* event i happens outside of every function body
AtRootLevel(i) == OpenCalls(i - 1) = {}

\* the innermost call in whose body event i happens, and the event that
\* entered that body
CallOf(i) == Max(OpenCalls(i - 1))

BodyOf(c) == CHOOSE m \in Events : hist[m].ev = "body" /\ hist[m].call = c

\* the blocks entered and not left after the first i events
OpenBlocks(i) ==
    {m \in 1..i : hist[m].ev = "block_enter"}
    \ {hist[m].block : m \in {m \in 1..i : hist[m].ev = "block_exit"}}

\* the scope event i happens in: the innermost block that is open, or 0
\* for the session scope
ScopeOf(i) == Max(OpenBlocks(i - 1) \cup {0})

\* the environment of the session scope when event i happens: the one of
\* the last evaluation step made directly in it
RootEnvAt(i) ==
    hist[Max({j \in 1..i : hist[j].ev = "eval" /\ hist[j].env.outer = None})].env

Range(s) == {s[k] : k \in DOMAIN s}

(***************************************************************************)
(* C1.  If a return statement is reached inside nested block expressions   *)
(* of a program evaluated at the root (outside of every function body),    *)
(* the result of the program is the payload of the first such return, and  *)
(* no statement is evaluated after it.                                     *)
(***************************************************************************)
C1_ReturnEndsProgram ==
    \A i \in EventsOf("return") :
        ( /\ AtRootLevel(i)
          /\ \A j \in EventsOf("return") : j < i => ~AtRootLevel(j) )
        => /\ result.ok
           /\ result.val = hist[i].value
           /\ \A j \in (i + 1)..Len(hist) :
                ~(hist[j].ev = "eval" /\ IsStatement(hist[j].node))

(***************************************************************************)
(* C2.  A return reached inside the body of a user function ends that call *)
(* and only that call: no statement of the body follows it, the value of   *)
(* the call is the payload of the return, and that value is not a          *)
(* ReturnValue (so that the caller goes on).                               *)
(***************************************************************************)
C2_ReturnEndsCall ==
    \A i \in EventsOf("return") :
        ~AtRootLevel(i)
        => LET c == CallOf(i)
               rets == {j \in EventsOf("ret") : hist[j].call = c}
           IN /\ rets # {}
              /\ \A j \in rets :
                    /\ hist[j].value = hist[i].value
                    /\ hist[j].value.kind # "ReturnValue"
                    /\ \A k \in (i + 1)..(j - 1) :
                          ~(hist[k].ev = "eval" /\ IsStatement(hist[k].node))

(***************************************************************************)
(* C3.  The value returned by evaluating a Root node is never a            *)
(* ReturnValue.                                                            *)
(***************************************************************************)
C3_NoMarkerResult == result.ok => result.val.kind # "ReturnValue"

(***************************************************************************)
(* Identifiers read in the body of a user function.  FreeReads is the set  *)
(* of the ident events that happen in a body and whose name is neither a   *)
(* built-in, nor a parameter of the function, nor bound by a let of the    *)
(* body before the read.                                                   *)
(***************************************************************************)
FunctionOf(i) == hist[BodyOf(CallOf(i))].function

CallerEnvOf(i) == hist[CallOf(i)].env

FreeReads ==
    {i \in EventsOf("ident") :
        /\ ~AtRootLevel(i)
        /\ hist[i].name \notin BuiltinNames
        /\ hist[i].name \notin Range(FunctionOf(i).parameters)
        /\ \A j \in EventsOf("let") :
              (BodyOf(CallOf(i)) < j /\ j < i) => hist[j].name # hist[i].name}

(***************************************************************************)
(* C4 (as claimed).  A free identifier of a function body resolves against *)
(* the environment captured at the fn literal and against nothing else: a  *)
(* name that the captured environment chain does not bind is not visible   *)
(* in the body, whatever the caller's scope binds.                         *)
(***************************************************************************)
C4_CallerScopeInvisible ==
    \A i \in FreeReads :
        hist[i].found = Environment_get(FunctionOf(i).env, hist[i].name)

(***************************************************************************)
(* C4 (amended).  A free identifier of a function body resolves against    *)
(* the environment captured at the fn literal first, and against the       *)
(* caller's environment only if the captured chain does not bind the name: *)
(* a captured binding hides a binding of the call site, and a name bound   *)
(* only in the caller's scope is visible in the body.                      *)
(***************************************************************************)
C4_CapturedBeforeCaller ==
    \A i \in FreeReads :
        LET captured == Environment_get(FunctionOf(i).env, hist[i].name)
        IN hist[i].found = IF captured # None
                           THEN captured
                           ELSE Environment_get(CallerEnvOf(i), hist[i].name)

\* a body reads a name that the captured environment and the call site bind
\* to different values, and gets the captured one
C4_Witness ==
    \E i \in FreeReads :
        LET captured == Environment_get(FunctionOf(i).env, hist[i].name)
            caller == Environment_get(CallerEnvOf(i), hist[i].name)
        IN /\ captured # None
           /\ caller # None
           /\ captured # caller
           /\ hist[i].found = captured

(***************************************************************************)
(* C5 (as claimed).  A binding that a let adds to the scope of a fn        *)
(* literal after the literal was evaluated is resolvable in the body at    *)
(* every later call of that function: a free read of the name in the body  *)
(* finds the value the let bound.                                          *)
(***************************************************************************)
C5_LaterBindingsResolvable ==
    \A p \in EventsOf("fn") : \A j \in EventsOf("let") :
        (p < j /\ ScopeOf(j) = ScopeOf(p))
        => \A i \in FreeReads :
              ( /\ j < BodyOf(CallOf(i))
                /\ FunctionOf(i) = hist[p].value
                /\ hist[i].name = hist[j].name )
              => hist[i].found = Some(hist[j].value)

(***************************************************************************)
(* C6.  For every call: its arguments are evaluated one after the other in *)
(* the order of their positions, each one once and in the environment of   *)
(* the caller; argument i + 1 is started only when argument i has been     *)
(* evaluated without an error; and the body of the callee (or the host     *)
(* function of a built-in) is entered only when every argument has been.   *)
(***************************************************************************)
ArgsOf(c) == {j \in EventsOf("arg") : hist[j].call = c}

ArgsDoneOf(c) == {j \in EventsOf("arg_done") : hist[j].call = c}

EntriesOf(c) ==
    {j \in EventsOf("body") \cup EventsOf("builtin") : hist[j].call = c}

C6_ArgumentOrder ==
    \A c \in EventsOf("call") :
        /\ \A j \in ArgsOf(c) :
              /\ hist[j].i \in 1..hist[c].nargs
              /\ hist[j].env = hist[c].env
              /\ hist[j + 1].ev = "eval"
              /\ hist[j + 1].env = hist[c].env
              /\ \A k \in ArgsOf(c) : (k < j) <=> (hist[k].i < hist[j].i)
              /\ \A n \in 1..(hist[j].i - 1) :
                    \E k \in ArgsDoneOf(c) : hist[k].i = n /\ k < j
        /\ \A j \in ArgsDoneOf(c) :
              \E k \in ArgsOf(c) : hist[k].i = hist[j].i /\ k < j
        /\ \A j \in EntriesOf(c) :
              /\ \A n \in 1..hist[c].nargs :
                    \E k \in ArgsDoneOf(c) : hist[k].i = n /\ k < j
              /\ \A k \in ArgsOf(c) : k < j

\* a call of a user function with two arguments or more whose body has been
\* entered, and a call whose second argument failed
C6_Witness ==
    \E c \in EventsOf("call") :
        /\ hist[c].nargs >= 2
        /\ \E j \in EventsOf("body") : hist[j].call = c
        /\ Cardinality(ArgsOf(c)) = hist[c].nargs

C6_WitnessError ==
    \E c \in EventsOf("call") :
        /\ hist[c].nargs >= 3
        /\ Cardinality(ArgsOf(c)) = 2
        /\ Cardinality(ArgsDoneOf(c)) = 1
        /\ EntriesOf(c) = {}
        /\ ~result.ok

(***************************************************************************)
(* C7.  A let statement, once its right-hand side has been evaluated to a  *)
(* value: if the name is bound in the scope the let is evaluated in, the   *)
(* let fails with "'<name>' is already defined", nothing more is evaluated *)
(* and no binding has changed; if the name is not bound in that scope, be  *)
(* it bound in an outer scope or not, the let binds it to the value in     *)
(* that scope.                                                             *)
(***************************************************************************)
C7_RedefinitionFails ==
    \A i \in EventsOf("rhs") :
        LET x == hist[i].name IN
        IF x \in DOMAIN hist[i].env.m
        THEN /\ i = Len(hist)
             /\ ~result.ok
             /\ result.err = "'" \o x \o "' is already defined"
             /\ env = RootEnvAt(i)
        ELSE /\ i < Len(hist)
             /\ hist[i + 1] = [ev |-> "let", name |-> x, value |-> hist[i].value]

\* in one block, a let of a name bound in the enclosing scope only has
\* succeeded and a second let of that name has failed
C7_Witness ==
    \E i \in EventsOf("rhs") : \E j \in EventsOf("let") :
        /\ j < i
        /\ hist[j].name = hist[i].name
        /\ ScopeOf(j) = ScopeOf(i)
        /\ ScopeOf(i) # 0
        /\ hist[i].name \in DOMAIN hist[i].env.m
        /\ hist[i].env.m[hist[i].name] = hist[j].value
        /\ Environment_get(hist[i].env.outer[1], hist[i].name) # None
        /\ i = Len(hist)

(***************************************************************************)
(* C8.  Outside of function bodies, an identifier that is not a built-in   *)
(* resolves to the binding of the innermost scope, among the scopes open   *)
(* at the read, that binds the name: to the value of an inner let while    *)
(* the block of that let is open, and to the binding of the enclosing      *)
(* scope again once that block has ended.                                  *)
(***************************************************************************)
\* the lets of the name x made before event i in a scope that is open at i
VisibleLets(i, x) ==
    {j \in EventsOf("let") :
        /\ j < i
        /\ hist[j].name = x
        /\ ScopeOf(j) \in OpenBlocks(i - 1) \cup {0}}

LexicalValue(i, x) ==
    LET lets == VisibleLets(i, x)
        inner == Max({ScopeOf(j) : j \in lets})
    IN IF lets = {}
       THEN Environment_get(hist[1].env, x)
       ELSE Some(hist[Max({j \in lets : ScopeOf(j) = inner})].value)

RootReads ==
    {i \in EventsOf("ident") :
        AtRootLevel(i) /\ hist[i].name \notin BuiltinNames}

C8_InnermostScopeFirst ==
    \A i \in RootReads : hist[i].found = LexicalValue(i, hist[i].name)

\* a name is read in an inner block that rebinds it, and read again in the
\* enclosing block after the inner block has ended: the inner value, then
\* the outer value
C8_Witness ==
    \E i \in RootReads : \E k \in RootReads :
        /\ i < k
        /\ hist[i].name = hist[k].name
        /\ ScopeOf(i) \notin OpenBlocks(k - 1)
        /\ ScopeOf(k) \in OpenBlocks(i - 1)
        /\ \E j \in VisibleLets(i, hist[i].name) :
              /\ ScopeOf(j) = ScopeOf(i)
              /\ hist[i].found = Some(hist[j].value)
        /\ \E j \in VisibleLets(k, hist[k].name) :
              /\ ScopeOf(j) = ScopeOf(k)
              /\ j < i
              /\ hist[k].found = Some(hist[j].value)
        /\ hist[i].found # hist[k].found

(***************************************************************************)
(* C9.  A let statement whose name is a built-in fails with "'<name>' is a *)
(* built-in identifier" wherever it stands: nothing is evaluated after the *)
(* statement is reached (its right-hand side is not) and the environment   *)
(* is left as it was.  An identifier that is the name of a built-in        *)
(* resolves to the built-in, whatever the environment binds the name to.   *)
(***************************************************************************)
BuiltinLets ==
    {i \in EventsOf("eval") :
        /\ hist[i].node.node = "Let"
        /\ hist[i].node.identifier \in BuiltinNames}

C9_BuiltinsNotShadowed ==
    /\ \A i \in BuiltinLets :
          /\ i = Len(hist)
          /\ ~result.ok
          /\ result.err = "'" \o hist[i].node.identifier
                          \o "' is a built-in identifier"
          /\ env = RootEnvAt(i)
    /\ \A i \in EventsOf("let") : hist[i].name \notin BuiltinNames
    /\ \A i \in EventsOf("ident") :
          hist[i].name \in BuiltinNames
          => hist[i].found = Some(initialize_builtin[hist[i].name])

\* in the body of a function with a parameter named as a built-in, the name
\* is read, and a let of a built-in is reached two blocks deep
C9_Witness ==
    /\ \E i \in EventsOf("ident") :
          /\ hist[i].name \in BuiltinNames
          /\ Environment_get(hist[i].env, hist[i].name) # None
          /\ hist[i].found
               # Environment_get(hist[i].env, hist[i].name)
    /\ \E i \in BuiltinLets :
          /\ Cardinality(OpenBlocks(i - 1)) >= 2
          /\ hist[i].node.expression.node = "Call"

(***************************************************************************)
(* C10.  A block expression (a bare block, the branch of an if, the body   *)
(* of a function) leaves the environment it is evaluated in as it was: the *)
(* evaluation that follows the block in its enclosing scope runs in the    *)
(* environment the block was entered in (the caller's, for a body), where  *)
(* the names bound in the block are not defined; and the session           *)
(* environment after a line binds what it bound before the line and what   *)
(* the lets made directly in the session scope have added.                 *)
(***************************************************************************)
\* the environment block b (a block_enter event) was evaluated in
EnclosingEnv(b) ==
    IF b > 1 /\ hist[b - 1].ev = "body"
    THEN hist[hist[b - 1].call].env
    ELSE hist[b].env

\* the evaluation steps that follow the end k of a block, before any let
FollowingEvals(k) ==
    {i \in EventsOf("eval") :
        /\ k < i
        /\ \A j \in (k + 1)..(i - 1) : hist[j].ev \notin {"eval", "let"}}

SessionLets == {j \in EventsOf("let") : ScopeOf(j) = 0}

C10_BlockLeavesEnvironment ==
    /\ \A k \in EventsOf("block_exit") : \A i \in FollowingEvals(k) :
          ScopeOf(i) = ScopeOf(hist[k].block)
          => hist[i].env = EnclosingEnv(hist[k].block)
    /\ hist # <<>> =>
          /\ env.outer = None
          /\ DOMAIN env.m
               = DOMAIN hist[1].env.m \cup {hist[j].name : j \in SessionLets}
          /\ \A x \in DOMAIN hist[1].env.m : env.m[x] = hist[1].env.m[x]
          /\ \A j \in SessionLets : env.m[hist[j].name] = hist[j].value

\* a block that bound a name has ended, and the evaluation that follows it
\* in the enclosing scope runs where that name is not defined
C10_Witness ==
    \E k \in EventsOf("block_exit") : \E i \in FollowingEvals(k) :
        /\ ScopeOf(i) = ScopeOf(hist[k].block)
        /\ \E j \in EventsOf("let") :
              /\ ScopeOf(j) = hist[k].block
              /\ Environment_get(hist[i].env, hist[j].name) = None
              /\ hist[j].name \notin DOMAIN env.m

(***************************************************************************)
(* C11.  A program stops at the first statement that raises an error.  The *)
(* errors whose origin the history shows are the identifier that is not    *)
(* defined, the let of a name bound in its scope and the let of a built-in *)
(* name: nothing is evaluated after such a step and the line fails.  When  *)
(* a line has failed, the statements evaluated are the first k statements  *)
(* of the line, in order, the result is the error alone, the session       *)
(* environment binds every name that a let of the session scope bound      *)
(* before the failure, and the next line that is evaluated (a blank line   *)
(* and a line that fails to lex or to parse are not) is evaluated in that  *)
(* environment.                                                            *)
(***************************************************************************)
ErrorOrigins ==
    {i \in EventsOf("ident") : hist[i].found = None}
    \cup {i \in EventsOf("rhs") : hist[i].name \in DOMAIN hist[i].env.m}
    \cup BuiltinLets

\* the evaluations of the statements of the line itself
TopStatements ==
    {i \in EventsOf("eval") :
        IsStatement(hist[i].node) /\ AtRootLevel(i) /\ ScopeOf(i) = 0}

ErrorStopsTheLine ==
    /\ \A i \in ErrorOrigins :
          /\ ~result.ok
          /\ \A j \in EventsOf("eval") : j <= i
    /\ ~result.ok =>
          /\ DOMAIN result = {"ok", "err"}
          /\ TopStatements # {}
          /\ Cardinality(TopStatements) <= Len(line.statements)
          /\ \A t \in TopStatements :
                hist[t].node
                  = line.statements[Cardinality({u \in TopStatements : u <= t})]
          /\ \A j \in SessionLets :
                /\ j < Max(TopStatements)
                /\ Environment_get(env, hist[j].name) = Some(hist[j].value)

C11_StopsAtFirstError ==
    [][ /\ ErrorStopsTheLine'
        /\ (nlines' = nlines + 1 /\ ~result.ok /\ parsed'.res = "Ok")
               => hist'[1].env = env ]_vars

\* a line of three statements has failed at its second statement, after a
\* let of the session scope, and the third statement was not evaluated
C11_Witness ==
    /\ ~result.ok
    /\ Len(line.statements) = 3
    /\ Cardinality(TopStatements) = 2
    /\ \E j \in SessionLets :
          /\ hist[j].name \notin DOMAIN hist[1].env.m
          /\ hist[j].name \in DOMAIN env.m
    /\ line.statements[3].node = "Let"
    /\ line.statements[3].identifier \notin DOMAIN env.m

(***************************************************************************)
(* C12.  Reading a line leaves every binding of the session environment as *)
(* it was: a name bound before the line is bound to the same value after   *)
(* it, whether the line succeeded or failed, and a name bound after the    *)
(* line and not before it was bound, to that value, by a let of the line   *)
(* made in the session scope.  The session environment has no outer scope. *)
(***************************************************************************)
C12_GlobalBindingsKept ==
    [][ /\ env'.outer = None
        /\ \A x \in DOMAIN env.m :
              x \in DOMAIN env'.m /\ env'.m[x] = env.m[x]
        /\ \A x \in (DOMAIN env'.m) \ (DOMAIN env.m) :
              \E j \in SessionLets' :
                  hist'[j].name = x /\ hist'[j].value = env'.m[x] ]_vars

\* a line has tried to bind, in the session scope, a name that the session
\* bound before the line to another value, and the name has kept its value
C12_Witness ==
    \E i \in EventsOf("rhs") :
        /\ ScopeOf(i) = 0
        /\ AtRootLevel(i)
        /\ hist[i].name \in DOMAIN hist[1].env.m
        /\ hist[i].value # hist[1].env.m[hist[i].name]
        /\ env.m[hist[i].name] = hist[1].env.m[hist[i].name]
        /\ nlines = 2

(***************************************************************************)
(* C13 (as claimed).  For the integers a and b, a / b fails with "zero     *)
(* division" exactly when b is 0 and is the quotient truncated toward zero *)
(* otherwise; a % b fails with "zero division in '%'" exactly when b is 0  *)
(* and is the remainder of that division otherwise.                        *)
(***************************************************************************)
C13_ZeroDivision ==
    \A a \in DivisionOperands : \A b \in DivisionOperands :
        /\ line = DivisionProgram("/", a, b) =>
              result = IF b = 0
                       THEN [ok |-> FALSE, err |-> "zero division"]
                       ELSE [ok |-> TRUE, val |-> IntObject(TruncDiv(a, b))]
        /\ line = DivisionProgram("%", a, b) =>
              result = IF b = 0
                       THEN [ok |-> FALSE, err |-> "zero division in '%'"]
                       ELSE [ok |-> TRUE, val |-> IntObject(TruncRem(a, b))]

(***************************************************************************)
(* C14.  An index expression whose target is an array or a string of n     *)
(* elements (the scalars, for a string) and whose index is the value i     *)
(* fails with "non-integer array index found" when i is not an Int, with   *)
(* "negative array index not allowed" when i < 0, with "array index out of *)
(* bounds" when i >= n, and is element i of the target otherwise, counted  *)
(* from 0: the scalar i as a Char for a string.                            *)
(***************************************************************************)
IndexOutcome(target, index) ==
    LET n == IF target.kind = "Str"
             THEN Len(target.value)
             ELSE Len(target.elements)
    IN IF index.kind # "Int"
       THEN [ok |-> FALSE, err |-> "non-integer array index found"]
       ELSE IF index.value < 0
       THEN [ok |-> FALSE, err |-> "negative array index not allowed"]
       ELSE IF index.value >= n
       THEN [ok |-> FALSE, err |-> "array index out of bounds"]
       ELSE [ok |-> TRUE,
             val |-> IF target.kind = "Str"
                     THEN Char(target.value[index.value + 1])
                     ELSE target.elements[index.value + 1]]

\* the line ends with an index expression as its last statement
EndsWithIndex ==
    /\ line.statements # <<>>
    /\ LET last == line.statements[Len(line.statements)]
       IN last.node = "ExpressionStatement" /\ last.expression.node = "Index"

C14_Indexing ==
    \A i \in EventsOf("index") :
        /\ hist[i].target.kind \in {"Array", "Str"}
        /\ EndsWithIndex => /\ i = Len(hist)
                            /\ result = IndexOutcome(hist[i].target,
                                                     hist[i].index)

\* the third scalar of a string whose second scalar is outside ASCII
C14_Witness ==
    \E i \in EventsOf("index") :
        /\ hist[i].target.kind = "Str"
        /\ hist[i].target.value = <<"a", "U+3042", "b">>
        /\ hist[i].index.kind = "Int"
        /\ hist[i].index.value = 2
        /\ result = [ok |-> TRUE, val |-> Char("b")]

(***************************************************************************)
(* C15 (as claimed).  A call whose callee expression evaluates to a        *)
(* function or to a built-in function, whatever the form of the callee,    *)
(* goes on to the arity check and, the number of arguments being the       *)
(* number of parameters, to the invocation; a call fails on its callee     *)
(* only when the callee evaluates to a value of another kind.              *)
(***************************************************************************)
CallEvals == {i \in EventsOf("eval") : hist[i].node.node = "Call"}

\* what the callee expression of the call evaluated at event i evaluates to
CalleeOf(i) == eval(hist[i].node.function, hist[i].env, <<>>, platform)

IsCallable(r) == r.ok /\ r.val.kind \in {"Function", "BuiltinFunction"}

C15_AnyCalleeForm ==
    \A i \in CallEvals :
        IF IsCallable(CalleeOf(i))
        THEN IF Len(hist[i].node.arguments) = Len(CalleeOf(i).val.parameters)
             THEN \E j \in EventsOf("call") :
                     /\ j > i
                     /\ hist[j].env = hist[i].env
                     /\ hist[j].nargs = Len(hist[i].node.arguments)
             ELSE ~result.ok /\ result.err = "argument number mismatch"
        ELSE ~result.ok

(***************************************************************************)
(* C15 (amended).  A call goes on to the arity check and then to the       *)
(* invocation when its callee is an identifier or a function literal that  *)
(* evaluates to a function or to a built-in function.  An identifier that  *)
(* evaluates to a value of another kind fails with "'<name>' is not a      *)
(* function".  A callee of any other form fails with "only identifier or   *)
(* function literal can be called" without being evaluated, whatever it    *)
(* would evaluate to.                                                      *)
(***************************************************************************)
\* the call fails at event j, the last step taken, with the message msg
FailsAt(j, msg) ==
    j = Len(hist) /\ result = [ok |-> FALSE, err |-> msg]

\* the call of node n goes on, from event j, with the callee value f
ArityThenCall(n, j, f) ==
    IF Len(n.arguments) # Len(f.parameters)
    THEN FailsAt(j, "argument number mismatch")
    ELSE /\ j < Len(hist)
         /\ hist[j + 1].ev = "call"
         /\ hist[j + 1].nargs = Len(n.arguments)

C15_CalleeForms ==
    \A i \in CallEvals :
        LET n == hist[i].node IN
        CASE n.function.node = "Identifier" ->
                /\ i < Len(hist)
                /\ hist[i + 1].ev = "ident"
                /\ hist[i + 1].name = n.function.name
                /\ IF hist[i + 1].found = None
                   THEN FailsAt(i + 1, "'" \o n.function.name
                                          \o "' is not defined")
                   ELSE IF hist[i + 1].found[1].kind
                             \notin {"Function", "BuiltinFunction"}
                   THEN FailsAt(i + 1, "'" \o n.function.name
                                          \o "' is not a function")
                   ELSE ArityThenCall(n, i + 1, hist[i + 1].found[1])
          [] n.function.node = "FunctionLiteral" ->
                /\ i + 2 <= Len(hist)
                /\ hist[i + 1].ev = "eval"
                /\ hist[i + 2].ev = "fn"
                /\ ArityThenCall(n, i + 2, hist[i + 2].value)
          [] OTHER ->
                FailsAt(i, "only identifier or function literal can be called")

\* a call whose callee is itself a call that would yield a function has
\* failed without evaluating its callee
C15_Witness ==
    \E i \in CallEvals :
        /\ hist[i].node.function.node = "Call"
        /\ IsCallable(CalleeOf(i))
        /\ Len(hist[i].node.arguments) = Len(CalleeOf(i).val.parameters)
        /\ i = Len(hist)
        /\ ~result.ok

(***************************************************************************)
(* C16.  For every binary expression, whatever its operator: the left      *)
(* operand is evaluated first, in the environment of the expression; when  *)
(* it has yielded a value, and only then, the right operand is evaluated,  *)
(* in the same environment and whatever that value is; when the right      *)
(* operand has yielded a value, and only then, the operator is applied to  *)
(* the two values.  Each of the two steps happens once at most, and '&&'   *)
(* or '||' applied to a value that is not a Bool fails with "operand of    *)
(* binary .. is not a boolean".                                            *)
(***************************************************************************)
BinaryEvals == {i \in EventsOf("eval") : hist[i].node.node = "Binary"}

LeftDoneOf(i) == {j \in EventsOf("left_done") : hist[j].at = i}

AppliedOf(i) == {j \in EventsOf("binary") : hist[j].at = i}

NotBooleanError(operator) ==
    IF operator = "&&"
    THEN "operand of binary '&&' is not a boolean"
    ELSE "operand of binary '|| is not a boolean"

C16_OperandOrder ==
    /\ \A j \in EventsOf("left_done") \cup EventsOf("binary") :
          hist[j].at \in BinaryEvals
    /\ \A i \in BinaryEvals :
        LET n == hist[i].node IN
        /\ i < Len(hist)
        /\ hist[i + 1] = [ev |-> "eval", node |-> n.left, env |-> hist[i].env]
        /\ Cardinality(LeftDoneOf(i)) <= 1
        /\ Cardinality(AppliedOf(i)) <= 1
        /\ \A j \in LeftDoneOf(i) :
              /\ j > i + 1
              /\ j < Len(hist)
              /\ hist[j + 1]
                   = [ev |-> "eval", node |-> n.right, env |-> hist[i].env]
        /\ LeftDoneOf(i) = {} => AppliedOf(i) = {} /\ ~result.ok
        /\ \A k \in AppliedOf(i) :
              /\ \E j \in LeftDoneOf(i) :
                    j + 1 < k /\ hist[k].left = hist[j].value
              /\ ( /\ n.operator \in {"&&", "||"}
                   /\ \/ hist[k].left.kind # "Bool"
                      \/ hist[k].right.kind # "Bool" )
                 => /\ k = Len(hist)
                    /\ result = [ok |-> FALSE,
                                 err |-> NotBooleanError(n.operator)]
        /\ (LeftDoneOf(i) # {} /\ AppliedOf(i) = {}) => ~result.ok

\* 'false && x' has evaluated x, which is not a Bool, and has failed
C16_Witness ==
    \E i \in BinaryEvals : \E k \in AppliedOf(i) :
        /\ hist[i].node.operator = "&&"
        /\ hist[k].left.kind = "Bool"
        /\ ~hist[k].left.value
        /\ hist[k].right.kind # "Bool"
        /\ ~result.ok

(***************************************************************************)
(* C17.  Unary '!' applied to a Bool yields the negation of the Bool;      *)
(* applied to a value of any other kind it fails with "operand of unary    *)
(* '!' is not a boolean", and the line fails with that error.              *)
(***************************************************************************)
Inversions == {k \in EventsOf("unary") : hist[k].operator = "!"}

C17_InvertNeedsBool ==
    \A k \in Inversions :
        IF hist[k].operand.kind = "Bool"
        THEN hist[k].outcome = OpOk(Bool(~hist[k].operand.value))
        ELSE /\ hist[k].outcome
                  = OpErr("operand of unary '!' is not a boolean")
             /\ k = Len(hist)
             /\ result = [ok |-> FALSE,
                          err |-> "operand of unary '!' is not a boolean"]

\* in one line, '!' has negated a Bool and has then failed on an Int
C17_Witness ==
    \E j \in Inversions : \E k \in Inversions :
        /\ j < k
        /\ hist[j].operand.kind = "Bool"
        /\ hist[j].outcome.ok
        /\ hist[k].operand.kind = "Int"
        /\ ~hist[k].outcome.ok
        /\ ~result.ok

(***************************************************************************)
(* C18 (as claimed).  Unary '!' applied to an Int, a Float, a Str or an    *)
(* Array succeeds and yields the negation of the Bool that the built-in    *)
(* 'bool' yields for that value.                                           *)
(***************************************************************************)
\* bool(o), by the host function of the built-in
bool_of(o) ==
    BuiltinFunction_call(initialize_builtin["bool"],
                         Environment_set(Environment_new(None), "v", o),
                         Environment_new(None), <<>>)

C18_InvertTruthiness ==
    \A k \in Inversions :
        hist[k].operand.kind \in {"Int", "Float", "Str", "Array"}
        => /\ hist[k].outcome.ok
           /\ hist[k].outcome.val = Bool(~bool_of(hist[k].operand).val.value)

(***************************************************************************)
(* C19 (as claimed).  The lexer is total: no call of get_next_token        *)
(* aborts, whatever the input; every token other than Eof that a call      *)
(* returns advances the position by at least one character; and once Eof   *)
(* has been returned, a further call returns Eof again and leaves the      *)
(* position unchanged.                                                     *)
(***************************************************************************)
ReturnedEof == token.res = "Ok" /\ token.token.type = "Eof"

C19_LexerTotal ==
    [][/\ token'.res # "Panic"
       /\ (token'.res = "Ok" /\ ~ReturnedEof'
              => lexer'.position > lexer.position)
       /\ (ReturnedEof
              => ReturnedEof' /\ lexer'.position = lexer.position)]_vars

(***************************************************************************)
(* C20.  The literal that the last call of get_next_token read starts at   *)
(* the first character after the whitespace at the position of the call.  *)
(***************************************************************************)
RECURSIVE SkipWhitespace(_, _)
SkipWhitespace(input, i) ==
    IF i <= Len(input) /\ input[i] \in AsciiWhitespace
    THEN SkipWhitespace(input, i + 1)
    ELSE i

LiteralStart == SkipWhitespace(lexer.input, from + 1)

\* the escape table: the character after the backslash, and what the
\* escape stands for
EscapeTable ==
    [c \in {"\\", "'", "\"", "0", "n", "r", "t"} |->
        CASE c = "\\" -> "\\"
          [] c = "'" -> "'"
          [] c = "\"" -> "\""
          [] c = "0" -> "U+0000"
          [] c = "n" -> "\n"
          [] c = "r" -> "\r"
          [] c = "t" -> "\t"]

\* the index of the quote that closes the string literal whose content
\* starts at index i, or 0 when the literal is not closed
RECURSIVE ClosingQuote(_, _)
ClosingQuote(input, i) ==
    IF i > Len(input) THEN 0
    ELSE IF input[i] = "\"" THEN i
    ELSE IF input[i] = "\\"
    THEN IF i + 1 > Len(input) THEN 0 ELSE ClosingQuote(input, i + 2)
    ELSE ClosingQuote(input, i + 1)

\* the content of a string literal has a backslash followed by a character
\* that is not in the escape table
RECURSIVE HasUnknownEscape(_)
HasUnknownEscape(raw) ==
    IF raw = <<>> THEN FALSE
    ELSE IF raw[1] = "\\"
    THEN raw[2] \notin DOMAIN EscapeTable
         \/ HasUnknownEscape(SubSeq(raw, 3, Len(raw)))
    ELSE HasUnknownEscape(Tail(raw))

\* the content with every escape of the table replaced by what it stands
\* for and every other escape by the character after the backslash
RECURSIVE Unescaped(_)
Unescaped(raw) ==
    IF raw = <<>> THEN <<>>
    ELSE IF raw[1] = "\\"
    THEN <<IF raw[2] \in DOMAIN EscapeTable THEN EscapeTable[raw[2]]
                                            ELSE raw[2]>>
         \o Unescaped(SubSeq(raw, 3, Len(raw)))
    ELSE <<raw[1]>> \o Unescaped(Tail(raw))

\* the last call read the character literal '\c' with c not in the table
UnknownEscapeInCharacter ==
    LET input == lexer.input
        s == LiteralStart
    IN /\ token.res # "None"
       /\ s + 3 <= Len(input)
       /\ input[s] = "'"
       /\ input[s + 1] = "\\"
       /\ input[s + 2] \notin DOMAIN EscapeTable
       /\ input[s + 3] = "'"

\* the last call read a closed string literal with a backslash followed by
\* a character not in the table
UnknownEscapeInString ==
    LET input == lexer.input
        s == LiteralStart
    IN /\ token.res # "None"
       /\ s <= Len(input)
       /\ input[s] = "\""
       /\ ClosingQuote(input, s + 1) # 0
       /\ HasUnknownEscape(
              SubSeq(input, s + 1, ClosingQuote(input, s + 1) - 1))

C25_NoMarkerBound ==
    /\ \A i \in EventsOf("let") : hist[i].value.kind # "ReturnValue"
    /\ \A i \in EventsOf("ident") :
          hist[i].found # None => hist[i].found[1].kind # "ReturnValue"
    /\ \A x \in DOMAIN env.m : env.m[x].kind # "ReturnValue"

(***************************************************************************)
(* C26.  Inside the body of a called user function a name is resolved in   *)
(* the parameter frame of the call first, then in the environment the      *)
(* function captured, and only then in the caller's environment: a         *)
(* parameter hides a captured binding of the same name, and a captured     *)
(* binding hides a caller's binding of the same name.                      *)
(***************************************************************************)
\* the reads of a name in a body that no let of the body has bound before
BodyReads ==
    {i \in EventsOf("ident") :
        /\ ~AtRootLevel(i)
        /\ hist[i].name \notin BuiltinNames
        /\ \A j \in EventsOf("let") :
              (BodyOf(CallOf(i)) < j /\ j < i) => hist[j].name # hist[i].name}

\* the value the call c bound to its parameter x: that of the argument of
\* the last parameter of that name
ParameterValue(c, f, x) ==
    LET k == Max({i \in 1..Len(f.parameters) : f.parameters[i] = x})
        j == CHOOSE j \in EventsOf("arg_done") :
                 hist[j].call = c /\ hist[j].i = k
    IN hist[j].value

C26_ResolutionOrder ==
    \A i \in BodyReads :
        LET f == FunctionOf(i)
            x == hist[i].name
            captured == Environment_get(f.env, x)
        IN hist[i].found =
              IF x \in Range(f.parameters)
              THEN Some(ParameterValue(CallOf(i), f, x))
              ELSE IF captured # None
              THEN captured
              ELSE Environment_get(CallerEnvOf(i), x)

\* a body has read a parameter whose name the captured environment and the
\* caller's environment bind too, to other values
C26_Witness ==
    \E i \in BodyReads :
        LET f == FunctionOf(i)
            x == hist[i].name
            captured == Environment_get(f.env, x)
            caller == Environment_get(CallerEnvOf(i), x)
        IN /\ x \in Range(f.parameters)
           /\ captured # None
           /\ caller # None
           /\ hist[i].found # None
           /\ hist[i].found[1].value # captured[1].value
           /\ hist[i].found[1].value = ParameterValue(CallOf(i), f, x).value

(***************************************************************************)
(* C27.  A call of a user function changes neither the caller's            *)
(* environment nor the function value: when the call ends, its caller      *)
(* continues in the environment the call was made in, and the name the     *)
(* function was called by still resolves there to the function value that  *)
(* was called, with the captured environment it had.                       *)
(***************************************************************************)
C27_CallLeavesClosure ==
    \A j \in EventsOf("ret") :
        LET c == hist[j].call IN
        /\ hist[j].env = hist[c].env
        /\ hist[c - 1].ev = "ident"
           => Environment_get(hist[j].env, hist[c - 1].name)
                 = Some(hist[BodyOf(c)].function)

\* a call of a function has ended inside another call of the same function
\* (recursion), the function having captured a non-empty environment
C27_Witness ==
    \E j1 \in EventsOf("ret") : \E j2 \in EventsOf("ret") :
        /\ j1 < j2
        /\ hist[j2].call < hist[j1].call
        /\ hist[BodyOf(hist[j1].call)].function
              = hist[BodyOf(hist[j2].call)].function
        /\ hist[hist[j1].call - 1].ev = "ident"
        /\ hist[j1].env # hist[j2].env

(***************************************************************************)
(* C28.  A call whose number of arguments is not the number of parameters  *)
(* of its callee fails with "argument number mismatch" as soon as the      *)
(* callee is resolved: no argument is evaluated and the body is not        *)
(* entered, so that no effect of an argument or of the body happens.       *)
(***************************************************************************)
\* the function that the callee of the call evaluated at event i resolved
\* to, as an Option
ResolvedCallee(i) ==
    LET n == hist[i].node IN
    IF /\ n.function.node = "Identifier"
       /\ i + 1 <= Len(hist)
       /\ hist[i + 1].ev = "ident"
       /\ hist[i + 1].found # None
       /\ hist[i + 1].found[1].kind \in {"Function", "BuiltinFunction"}
    THEN Some(hist[i + 1].found[1])
    ELSE IF /\ n.function.node = "FunctionLiteral"
            /\ i + 2 <= Len(hist)
            /\ hist[i + 2].ev = "fn"
    THEN Some(hist[i + 2].value)
    ELSE None

ArityMismatches ==
    {i \in CallEvals :
        /\ ResolvedCallee(i) # None
        /\ Len(hist[i].node.arguments) # Len(ResolvedCallee(i)[1].parameters)}

C28_ArityBeforeArguments ==
    \A i \in ArityMismatches :
        /\ result = [ok |-> FALSE, err |-> "argument number mismatch"]
        /\ \A k \in (i + 1)..Len(hist) :
              /\ hist[k].ev \in {"ident", "eval", "fn"}
              /\ k <= i + 2
              /\ hist[k].ev = "eval" => hist[k].node = hist[i].node.function

\* a call with too many or too few arguments, one of them a call of print,
\* has failed
C28_Witness ==
    \E i \in ArityMismatches :
        /\ \E a \in 1..Len(hist[i].node.arguments) :
              /\ hist[i].node.arguments[a].node = "Call"
              /\ hist[i].node.arguments[a].function = Id("print")
        /\ ~result.ok

(***************************************************************************)
(* Properties of the parser, on ParseSpec                                  *)
(***************************************************************************)
\* parse() has returned or the process has panicked
Returned == parsed.res \in {"Ok", "Err", "Panic"}

UnexpectedEof ==
    ParseError_Error("unexpected eof in the middle of a statement")

\* the tokens removed from the queue so far
Popped ==
    LET pops == SelectSeq(parser.log, LAMBDA e : e.ev = "pop")
    IN [i \in 1..Len(pops) |-> pops[i].token]

\* parse_expression was entered, or the loop of a block came to its next
\* statement, with nothing but Eof left
EofWhereRequired ==
    \E i \in 1..Len(parser.log) :
        /\ parser.log[i].ev = "begin"
        /\ parser.log[i].what \in {"expression", "block"}
        /\ parser.log[i].before = 1

\* the tokens after which an expression, or a statement of the block just
\* opened, has to follow
OpenEnded ==
    BinaryOperatorTokens \cup {"Invert", "Assign", "Return", "Lbrace"}

\* the input was consumed up to Eof and its last token is OpenEnded
EndsOpen ==
    /\ Len(parser.tokens) = 1
    /\ Popped # <<>>
    /\ Popped[Len(Popped)].type \in OpenEnded

\* C21: parse() never returns ParseError::Eof, and where the tokens end
\* where an expression or a statement of an unclosed block is required, at
\* any depth, it returns the message "unexpected eof in the middle of a
\* statement"
C21_EofIsAMessage ==
    /\ parsed.res = "Err" => parsed.err.kind = "Error"
    /\ Returned /\ (EofWhereRequired \/ EndsOpen) =>
           parsed = [res |-> "Err", err |-> UnexpectedEof]

\* Eof where an expression is required inside two unclosed blocks
C21_Witness ==
    /\ parsed = [res |-> "Err", err |-> UnexpectedEof]
    /\ EofWhereRequired
    /\ Cardinality({i \in 1..Len(Popped) : Popped[i].type = "Lbrace"}) >= 2
    /\ Popped[Len(Popped)].type \in BinaryOperatorTokens

\* the tokens without the semicolons that directly follow a semicolon: the
\* empty statements between two statements
WithoutStraySemicolons(v) ==
    LET stray(i) == i > 1 /\ v[i].type = "Semicolon"
                    /\ v[i - 1].type = "Semicolon"
        kept == {i \in 1..Len(v) : ~stray(i)}
        nth(k) == CHOOSE i \in kept : Cardinality({j \in kept : j < i}) = k - 1
    IN [k \in 1..Cardinality(kept) |-> v[nth(k)]]

\* C22: an input that differs from a valid program only by extra semicolons
\* between statements, at the root or inside a block, parses to the
\* statements of that program, the extra semicolons giving no node and no
\* error
C22_StraySemicolonsSkipped ==
    Returned =>
        \A valid \in {new_and_parse(WithoutStraySemicolons(tokens))} :
            valid.res = "Ok" => parsed = [res |-> "Ok", val |-> valid.val]

\* the levels of the binary operators, lowest first
Level(op) ==
    CASE op = "Or" -> 1
      [] op = "And" -> 2
      [] op \in {"Eq", "NotEq", "Lt", "Gt", "LtEq", "GtEq"} -> 3
      [] op \in {"Plus", "Minus"} -> 4
      [] op \in {"Asterisk", "Slash", "Percent", "Power"} -> 5

ParsedTo(expression) == parsed = [res |-> "Ok", val |-> Prog(<<Ex(expression)>>)]

\* C23: a op1 b op2 c parses as (a op1 b) op2 c where the level of op2 is
\* not above that of op1, so that every binary operator, ** too, is
\* left-associative, and as a op1 (b op2 c) where it is above; a prefix - or
\* ! binds tighter than every binary operator and looser than a call or an
\* index
C23_Precedence ==
    Returned =>
        /\ \A op1 \in BinaryOperatorTokens, op2 \in BinaryOperatorTokens :
               tokens = <<TokIdent(<<"a">>), Tok(op1), TokIdent(<<"b">>),
                          Tok(op2), TokIdent(<<"c">>), Tok("Eof")>> =>
                   ParsedTo(IF Level(op2) <= Level(op1)
                            THEN Bin(operator_of(Tok(op2)),
                                     Bin(operator_of(Tok(op1)), Id("a"),
                                         Id("b")),
                                     Id("c"))
                            ELSE Bin(operator_of(Tok(op1)), Id("a"),
                                     Bin(operator_of(Tok(op2)), Id("b"),
                                         Id("c"))))
        /\ \A u \in {"Minus", "Invert"} :
               /\ \A op \in BinaryOperatorTokens :
                      tokens = <<Tok(u), TokIdent(<<"a">>), Tok(op),
                                 TokIdent(<<"b">>), Tok("Eof")>> =>
                          ParsedTo(Bin(operator_of(Tok(op)),
                                       Un(operator_of(Tok(u)), Id("a")),
                                       Id("b")))
               /\ tokens = <<Tok(u), TokIdent(<<"f">>), Tok("Lparen"),
                             Tok("Rparen"), Tok("Eof")>> =>
                      ParsedTo(Un(operator_of(Tok(u)), Call(Id("f"), <<>>)))
               /\ tokens = <<Tok(u), TokIdent(<<"a">>), Tok("Lbracket"),
                             TokInt(1), Tok("Rbracket"), Tok("Eof")>> =>
                      ParsedTo(Un(operator_of(Tok(u)), Idx(Id("a"), I(1))))

\* a ** b ** c has been parsed
C23_Witness ==
    /\ parsed.res = "Ok"
    /\ tokens = <<TokIdent(<<"a">>), Tok("Power"), TokIdent(<<"b">>),
                  Tok("Power"), TokIdent(<<"c">>), Tok("Eof")>>

\* the operators kept in the tree n, each with the kind of its node
RECURSIVE OperatorsIn(_)
OperatorsIn(n) ==
    LET all(l) == UNION {OperatorsIn(l[i]) : i \in 1..Len(l)} IN
    CASE n.node \in {"Root", "Block"} -> all(n.statements)
      [] n.node \in {"Let", "ExpressionStatement"} -> OperatorsIn(n.expression)
      [] n.node = "Return" -> all(n.expression)
      [] n.node = "Unary" ->
             {<<"Unary", n.operator>>} \cup OperatorsIn(n.expression)
      [] n.node = "Binary" ->
             {<<"Binary", n.operator>>} \cup OperatorsIn(n.left)
             \cup OperatorsIn(n.right)
      [] n.node = "Index" -> OperatorsIn(n.array) \cup OperatorsIn(n.index)
      [] n.node = "Call" -> OperatorsIn(n.function) \cup all(n.arguments)
      [] n.node = "If" ->
             OperatorsIn(n.condition) \cup OperatorsIn(n.if_value)
             \cup all(n.else_value)
      [] n.node = "ArrayLiteral" -> all(n.elements)
      [] n.node = "FunctionLiteral" -> OperatorsIn(n.body)
      [] OTHER -> {}

BinaryOperators ==
    {"+", "-", "*", "/", "%", "**", "==", "!=", "<", ">", "<=", ">=", "&&",
     "||"}

\* C24: in every tree a successful parse returns, the operator of a Binary
\* node is one of the fourteen binary operators and the operator of a Unary
\* node is - or !
C24_OperatorsDeclared ==
    parsed.res = "Ok" =>
        \A o \in OperatorsIn(parsed.val) :
            /\ o[1] = "Binary" => o[2] \in BinaryOperators
            /\ o[1] = "Unary" => o[2] \in {"-", "!"}

\* a tree with a Binary and a Unary node, parsed from tokens that have a
\* comma or a parenthesis among them
C24_Witness ==
    /\ parsed.res = "Ok"
    /\ \E o \in OperatorsIn(parsed.val) : o[1] = "Binary"
    /\ \E o \in OperatorsIn(parsed.val) : o[1] = "Unary"
    /\ \E i \in 1..Len(tokens) : tokens[i].type \in {"Comma", "Rparen"}

LogEvents(ev) == {i \in 1..Len(parser.log) : parser.log[i].ev = ev}

\* C30: parse() never aborts and its loops are bounded by the tokens: the
\* queue is what is left of the tokens after the removal of those at its
\* front, every statement and every expression parsed has removed a token,
\* every turn of a loop and every nested expression starts with fewer
\* tokens than the one before it, and Eof is never removed, so that the
\* queue is never empty when it is read
C30_ParseTerminates ==
    /\ parsed.res # "Panic"
    /\ Popped \o parser.tokens = tokens
    /\ \A i \in LogEvents("pop") : parser.log[i].token.type # "Eof"
    /\ parser.tokens # <<>>
    /\ parser.tokens[Len(parser.tokens)].type = "Eof"
    /\ \A i \in LogEvents("read") : parser.log[i].before >= 1
    /\ \A i \in LogEvents("end") : parser.log[i].after < parser.log[i].before
    /\ \A i \in LogEvents("begin"), j \in LogEvents("begin") :
           i < j /\ parser.log[i].what = parser.log[j].what =>
               parser.log[j].before < parser.log[i].before

\* parse() has returned from inside a statement of a block, with Eof alone
\* left in the queue, after statements and expressions were parsed
C30_Witness ==
    /\ Returned
    /\ parser.tokens = <<Tok("Eof")>>
    /\ EofWhereRequired
    /\ \E i \in LogEvents("end") : parser.log[i].what = "statement"
    /\ \E i \in LogEvents("begin") : parser.log[i].what = "block"
    /\ Len(tokens) >= 6

(***************************************************************************)
(* Properties of the session, on Spec                                      *)
(***************************************************************************)
\* the step reads a line whose lexing or whose parsing fails: get_tokens or
\* parse() returns an error, or panics
FailedLine ==
    /\ nlines' = nlines + 1
    /\ \/ token'.res \in {"Err", "Panic"}
       \/ token'.res = "Ok" /\ parsed'.res \in {"Err", "Panic"}

\* C29 (as claimed): where the lexing or the parsing of a line fails, no
\* statement of the line is evaluated and the session environment stays as
\* it was, also where the error is at the end of the line, after valid let
\* statements; the loop goes on to the next line.  The line let a = 1; @
\* refutes the last part: its lexing fails by a panic of lookup_token, and
\* the process ends instead of reading the next line.
C29_FailedLineNotEvaluated ==
    [][FailedLine =>
           /\ env' = env
           /\ hist' = hist
           /\ result' = result
           /\ status' = "running"]_vars

====
